---- MODULE Spec2Model ----
(***************************************************************************)
(* A model of zlog's lock-free ring buffer (RingBuffer[T]) and of the      *)
(* asynchronous writer built on it (AsyncWriterV2), both of                *)
(* async_writer_generic.go, together with the generic object pool of the   *)
(* same package.  Every atomic load, store and compare-and-swap of Put and *)
(* Get is one step of the task that performs it, so that the interleavings *)
(* of producers, consumers and Close are those of the Go program.          *)
(***************************************************************************)
EXTENDS Integers, Sequences, FiniteSets, TLC

\* ------------------------------------------------------------------ bounds

\* Requested ring sizes are drawn from 0..MaxReq.
MaxReq == 4
\* Items (raw ring) or payloads (Write calls) handed in during one run.
MaxItems == 6
\* Write calls of one run of the dispatcher.
MaxWrites == 3
\* Write calls of the one run that needs one more (SpecLate).
MaxWritesLate == MaxWrites + 1
\* Tasks of one run; the dispatcher's are producers first, then workers.
MaxTasks == 3
\* Requested ring sizes of the dispatcher are drawn from 1..MaxAwReq.
MaxAwReq == 2

\* Buffers a run of the BufferPool has in use at once.
MaxBufs == 2
MaxStream == 3
\* Log calls per task on a shared logger.
MaxCalls == 2

\* Byte slices handed to Write have at most MaxLen bytes.
MaxLen == 2

Tasks == 1..MaxTasks
\* BufferPool.pools is an array of NumClasses size classes.
NumClasses == 20
\* The largest class holds buffers of 2^MaxPow bytes (1 << (19 + 6)).
MaxPow == NumClasses + 5
Classes == 0..(NumClasses - 1)
Buffers == 1..MaxBufs
\* LogEntry objects: a run needs at most one per Write call.
Entries == 1..MaxWritesLate
ReqSizes == 0..MaxReq

\* -------------------------------------------------- integer bit operations

\* n >> k on a signed integer (arithmetic shift: floor division by 2^k).
RECURSIVE Shr(_, _)
Shr(n, k) == IF k = 0 THEN n ELSE Shr(n \div 2, k - 1)

\* a | b on two's-complement integers of any width.
RECURSIVE BitOr(_, _)
BitOr(a, b) ==
    IF a = 0 THEN b
    ELSE IF b = 0 THEN a
    ELSE IF a = -1 \/ b = -1 THEN -1
    ELSE 2 * BitOr(a \div 2, b \div 2) + (IF a % 2 = 1 \/ b % 2 = 1 THEN 1 ELSE 0)

\* a & b on two's-complement integers of any width.  -1 is the word of all
\* ones: uint64(-1) = 2^64 - 1 acts in & as -1 does.
RECURSIVE BitAnd(_, _)
BitAnd(a, b) ==
    IF a = 0 \/ b = 0 THEN 0
    ELSE IF a = -1 THEN b
    ELSE IF b = -1 THEN a
    ELSE 2 * BitAnd(a \div 2, b \div 2) + (IF a % 2 = 1 /\ b % 2 = 1 THEN 1 ELSE 0)

\* nextPowerOf2: n--, the six or-shifts, n++.
nextPowerOf2(n) ==
    LET n0 == n - 1
        n1 == BitOr(n0, Shr(n0, 1))
        n2 == BitOr(n1, Shr(n1, 2))
        n3 == BitOr(n2, Shr(n2, 4))
        n4 == BitOr(n3, Shr(n3, 8))
        n5 == BitOr(n4, Shr(n4, 16))
        n6 == BitOr(n5, Shr(n5, 32))
    IN  n6 + 1

\* NewRingBuffer: the slot array (every slot nil, written 0) and the mask.
\* mask is uint64(size - 1); size - 1 = -1 stands for the word of all ones.
NewRingBuffer(size) ==
    LET sz == nextPowerOf2(size)
    IN  [buffer |-> [i \in 0..(sz - 1) |-> 0], mask |-> sz - 1]

\* ------------------------------------------------------------------- state

VARIABLES
    reqSize,    \* the size NewRingBuffer was called with
    buffer,     \* rb.buffer: slot index -> item (0 is nil)
    mask,       \* rb.mask
    head,       \* rb.head
    tail,       \* rb.tail
    done,       \* aw.done
    pool,       \* aw.pool: entry -> number of times it is held by the pool
    data,       \* entry.data: entry -> payload (0 is the empty slice)
    role,       \* what each task runs
    pc,         \* each task's position in its code
    lh,         \* Put's and Get's local head
    lt,         \* Get's local tail
    ent,        \* Put's argument: the item, or Write's entry
    got,        \* Get's result: the item, or the consumer's entry
    cur,        \* Write's argument b (the payload)
    drain,      \* worker: in the drain loop after done was seen
    mode,       \* the sequential task's phase: "fill" or "drain"
    nextItem,   \* the next fresh item or payload
    putLog,     \* history: what Put returned true for, in order
    getLog,     \* history: what Get returned, in order
    sink,       \* history: what was written to aw.writer, in order
    wres,       \* history: payload -> result of its Write call
    late,       \* history: payloads whose Write began after shutdown completed
    preClose,   \* history: payloads admitted to the ring before Close
    b,          \* the caller's byte slice, per task (the argument of Write)
    callB,      \* history: what b held when the task's Write was called
    arr,        \* entry.data's backing array: entry -> bytes (length = cap)
    dlen,       \* len(entry.data)
    slotFor,    \* history: slot -> bytes of the Write call that stored there
    gotFor,     \* history: task -> bytes of the Write call whose slot it loaded
    fwd,        \* history: <<bytes of the Write call, bytes given to the sink>>
    writer,     \* aw.writer: "ok", or "failing" when its Write may return an error
    numWrites,  \* the number of Write calls the callers make in this run
    serr,       \* the (discarded) error result of each task's last sink write
    bpools,     \* BufferPool.pools: size class -> the buffers its free list holds
    bufs,       \* buffer -> cap and len of its slice, and the size it was got for
    bpHeld,     \* buffers a caller got from the BufferPool and has not put back
    bpLast,     \* history: the last BufferPool call and what it did
    tw,         \* the TerminalWriter: useColor, and the line left in w.buf
    twOut,      \* what was written to w.out, in order
    twRec,      \* what the caller gives an encoder: logger, level, msg, fields
    twIn,       \* the byte slice given to TerminalWriter.Write
    twRes,      \* what the last TerminalWriter.Write returned, and what it read
    twPc,       \* the caller's position: "encode", "write" or "done"
    twLog,      \* history: the byte slices submitted to TerminalWriter.Write
    slKind,     \* the logger the tasks share: "Structured", "Ultimate" or "none"
    slLevel,    \* its level
    sequence,   \* its sequence counter
    slPc,       \* each task's position in its log call
    slCalls,    \* the number of log calls each task has issued
    slSeq,      \* the sequence number each task's call got from Add
    slRecs,     \* history: <<task, call, sequence number>> of every record formatted
    slOut,      \* history: the same of every record given to the writer, in order
    cwMu,       \* w.mu: the task that holds it, or 0
    cwPc,       \* each task's position in TerminalWriter.Write
    cwIn,       \* each task's argument b
    cwLen,      \* len(buf) of each task's local slice, in parts of a line
    cwArr,      \* the backing array of w.buf, shared by every slice of it
    cwOk,       \* history: the well-formed records each task has submitted
    cwLog,      \* history: task, argument and bytes of every w.out.Write
    orbGot      \* the slices OldRingBuffer.Get has returned, as their holders see them

ringVars == <<buffer, mask, head, tail>>
histVars == <<putLog, getLog, sink, wres, late, preClose>>
copyVars == <<b, callB, arr, dlen, slotFor, gotFor, fwd>>
envVars == <<writer, numWrites>>
sinkVars == <<envVars, serr>>
bpVars == <<bpools, bufs, bpHeld, bpLast>>
twVars == <<tw, twOut, twRec, twIn, twRes, twPc, twLog>>
slVars == <<slKind, slLevel, sequence, slPc, slCalls, slSeq, slRecs, slOut>>
cwVars == <<cwMu, cwPc, cwIn, cwLen, cwArr, cwOk, cwLog>>
orbVars == <<orbGot>>
logVars == <<slVars, cwVars, orbVars>>
libVars == <<bpVars, twVars, logVars>>

\* Everything but the BufferPool.
awVars == <<reqSize, ringVars, done, pool, data, role, pc, lh, lt, ent, got, cur,
            drain, mode, nextItem, histVars, copyVars, sinkVars>>

vars == <<reqSize, buffer, mask, head, tail, done, pool, data, role, pc, lh, lt,
          ent, got, cur, drain, mode, nextItem, putLog, getLog, sink, wres,
          late, preClose, copyVars, sinkVars, libVars>>

Slots == DOMAIN buffer
Cap == Cardinality(Slots)

\* An unrecovered panic ends the whole Go program.
Crashed == \E p \in Tasks : pc[p] = "panic"
At(p, label) == ~Crashed /\ pc[p] = label

IsDispatcher(p) == role[p] \in {"producer", "worker"}
\* The tasks whose items are pooled entries: the dispatcher's, and the
\* caller of an OldRingBuffer.
HoldsEntries(p) == IsDispatcher(p) \/ role[p] = "compat"
\* What the histories record for an admitted item: the payload of the Write
\* call, or the item itself on a raw ring.
PutLabel(p) == IF role[p] = "producer" THEN cur[p] ELSE ent[p]
\* What they record for a returned item: the payload the entry carries, or
\* the item itself on a raw ring.
GetLabel(p) == IF IsDispatcher(p) THEN data[got[p]] ELSE got[p]

ShutdownComplete ==
    done /\ \A p \in Tasks : role[p] = "worker" => pc[p] = "exited"

\* ------------------------------------------------------------ Pool[T]

\* Entries something still refers to.
Referenced(e) ==
    \/ pool[e] > 0
    \/ \E i \in Slots : buffer[i] = e
    \/ \E p \in Tasks : HoldsEntries(p) /\ (ent[p] = e \/ got[p] = e)

\* Pool.Get: sync.Pool hands out any object it holds, or a new one from
\* New (an entry nothing refers to, with empty data).
PoolGetChoices ==
    LET free == {e \in Entries : ~Referenced(e)}
    IN  {e \in Entries : pool[e] > 0} \cup
        (IF free = {} THEN {} ELSE {CHOOSE e \in free : \A f \in free : e <= f})

PoolAfterGet(e) == IF pool[e] > 0 THEN [pool EXCEPT ![e] = @ - 1] ELSE pool
PoolAfterPut(e) == [pool EXCEPT ![e] = @ + 1]

\* ------------------------------------------------------------ RingBuffer.Put

\* Line 44: the full test.
PutFull(next, t) == next = t

\* Line 49: the slot a Put that loaded head h stores into.
PutSlotNext(h) == BitAnd(h + 1, mask)
PutSlot(h) == h

\* head := rb.head.Load()
PutLoadHead(p) ==
    /\ At(p, "P_head")
    /\ lh' = [lh EXCEPT ![p] = head]
    /\ pc' = [pc EXCEPT ![p] = "P_tail"]
    /\ UNCHANGED <<reqSize, ringVars, done, pool, data, role, lt, ent, got,
                   cur, drain, mode, nextItem, histVars, copyVars, sinkVars,
                   libVars>>

\* next := (head + 1) & rb.mask; if next == rb.tail.Load() { return false }
PutLoadTail(p) ==
    /\ At(p, "P_tail")
    /\ IF PutFull(BitAnd(lh[p] + 1, mask), tail)
       THEN IF role[p] = "producer"
            THEN /\ pc' = [pc EXCEPT ![p] = "W_done"]
                 /\ ent' = ent
            ELSE /\ pc' = [pc EXCEPT ![p] = "idle"]
                 /\ ent' = [ent EXCEPT ![p] = 0]
       ELSE /\ pc' = [pc EXCEPT ![p] = "P_store"]
            /\ ent' = ent
    /\ UNCHANGED <<reqSize, ringVars, done, pool, data, role, lh, lt, got, cur,
                   drain, mode, nextItem, histVars, copyVars, sinkVars,
                   libVars>>

\* rb.buffer[head].Store(item); an index outside the slice panics.
PutStore(p) ==
    /\ At(p, "P_store")
    /\ IF PutSlot(lh[p]) \in Slots
       THEN /\ buffer' = [buffer EXCEPT ![PutSlot(lh[p])] = ent[p]]
            /\ slotFor' = [slotFor EXCEPT ![PutSlot(lh[p])] = callB[p]]
            /\ pc' = [pc EXCEPT ![p] = "P_pub"]
       ELSE /\ buffer' = buffer
            /\ slotFor' = slotFor
            /\ pc' = [pc EXCEPT ![p] = "panic"]
    /\ UNCHANGED <<reqSize, mask, head, tail, done, pool, data, role, lh, lt, ent,
                   got, cur, drain, mode, nextItem, histVars, b, callB, arr,
                   dlen, gotFor, fwd, sinkVars, libVars>>

\* rb.head.Store(next); return true
PutPublish(p) ==
    /\ At(p, "P_pub")
    /\ head' = BitAnd(lh[p] + 1, mask)
    /\ putLog' = Append(putLog, PutLabel(p))
    /\ pc' = [pc EXCEPT ![p] = "idle"]
    /\ ent' = [ent EXCEPT ![p] = 0]
    /\ IF role[p] = "producer"
       THEN /\ wres' = [wres EXCEPT ![cur[p]] = "ok"]
            /\ cur' = [cur EXCEPT ![p] = 0]
       ELSE UNCHANGED <<wres, cur>>
    /\ UNCHANGED <<reqSize, buffer, mask, tail, done, pool, data, role, lh, lt,
                   got, drain, mode, nextItem, getLog, sink, late, preClose,
                   copyVars, sinkVars, libVars>>

\* ------------------------------------------------------------ RingBuffer.Get

\* Lines 74 and 76: the slot a Get that claimed position t reads and clears.
GetSlotNext(t) == BitAnd(t + 1, mask)
GetSlot(t) == t

\* tail := rb.tail.Load()
GetLoadTail(p) ==
    /\ At(p, "G_tail")
    /\ lt' = [lt EXCEPT ![p] = tail]
    /\ pc' = [pc EXCEPT ![p] = "G_head"]
    /\ UNCHANGED <<reqSize, ringVars, done, pool, data, role, lh, ent, got,
                   cur, drain, mode, nextItem, histVars, copyVars, sinkVars,
                   libVars>>

\* Where a task goes on when Get returns (nil, false): a Write yields and
\* retries its Put (lines 146-148), a worker yields and loops or leaves.
AfterGetEmptyReturn(p) ==
    CASE role[p] = "worker" -> IF drain[p] THEN "exited" ELSE "K_done"
      [] OTHER -> "idle"
AfterGetEmpty(p) ==
    CASE role[p] = "producer" -> "P_head"
      [] role[p] = "worker" -> IF drain[p] THEN "exited" ELSE "K_done"
      [] OTHER -> "idle"

\* head := rb.head.Load(); if tail == head { return nil, false }
GetLoadHead(p) ==
    /\ At(p, "G_head")
    /\ lh' = [lh EXCEPT ![p] = head]
    /\ IF lt[p] = head
       THEN /\ pc' = [pc EXCEPT ![p] = AfterGetEmpty(p)]
            /\ getLog' = IF role[p] = "seq" THEN Append(getLog, 0) ELSE getLog
       ELSE /\ pc' = [pc EXCEPT ![p] = "G_cas"]
            /\ getLog' = getLog
    /\ UNCHANGED <<reqSize, ringVars, done, pool, data, role, lt, ent, got,
                   cur, drain, mode, nextItem, putLog, sink, wres, late,
                   preClose, copyVars, sinkVars, libVars>>

\* if rb.tail.CompareAndSwap(tail, (tail + 1) & rb.mask)
GetCAS(p) ==
    /\ At(p, "G_cas")
    /\ IF tail = lt[p]
       THEN /\ tail' = BitAnd(lt[p] + 1, mask)
            /\ pc' = [pc EXCEPT ![p] = "G_load"]
       ELSE /\ tail' = tail
            /\ pc' = [pc EXCEPT ![p] = "G_tail"]
    /\ UNCHANGED <<reqSize, buffer, mask, head, done, pool, data, role, lh, lt,
                   ent, got, cur, drain, mode, nextItem, histVars, copyVars,
                   sinkVars, libVars>>

\* if item := rb.buffer[tail].Load(); item != nil ... else runtime.Gosched()
GetLoadSlot(p) ==
    /\ At(p, "G_load")
    /\ IF buffer[GetSlot(lt[p])] # 0
       THEN /\ got' = [got EXCEPT ![p] = buffer[GetSlot(lt[p])]]
            /\ gotFor' = [gotFor EXCEPT ![p] = slotFor[GetSlot(lt[p])]]
            /\ pc' = [pc EXCEPT ![p] = "G_clear"]
       ELSE UNCHANGED <<got, gotFor, pc>>
    /\ UNCHANGED <<reqSize, ringVars, done, pool, data, role, lh, lt, ent, cur,
                   drain, mode, nextItem, histVars, b, callB, arr, dlen,
                   slotFor, fwd, sinkVars, libVars>>

\* rb.buffer[tail].Store(nil); return item, true
GetClearSlot(p) ==
    /\ At(p, "G_clear")
    /\ buffer' = [buffer EXCEPT ![GetSlot(lt[p])] = 0]
    /\ getLog' = Append(getLog, GetLabel(p))
    /\ IF HoldsEntries(p)
       THEN /\ pc' = [pc EXCEPT ![p] = IF IsDispatcher(p) THEN "C_sink" ELSE "O_take"]
            /\ got' = got
       ELSE /\ pc' = [pc EXCEPT ![p] = "idle"]
            /\ got' = [got EXCEPT ![p] = 0]
    /\ UNCHANGED <<reqSize, mask, head, tail, done, pool, data, role, lh, lt,
                   ent, cur, drain, mode, nextItem, putLog, sink, wres, late,
                   preClose, copyVars, sinkVars, libVars>>

\* ------------------------------------------------------ AsyncWriterV2.Write

\* Lines 127-132: the backing array of entry.data after
\*   if cap(entry.data) < len(b) { entry.data = make([]byte, len(b)) }
\*   else { entry.data = entry.data[:len(b)] }
\*   copy(entry.data, b)
\* a is the array before (its length is the capacity); in both branches the
\* new length is len(b), and bytes of a beyond it stay where they were.
WriteData(a, src) ==
    LET base == IF Len(a) < Len(src) THEN [i \in 1..Len(src) |-> 0] ELSE a
    IN  [i \in 1..Len(base) |-> IF i <= Len(src) THEN src[i] ELSE base[i]]

\* entry.data as a reader sees it: the first len bytes of its array.
EntryData(e) == SubSeq(arr[e], 1, dlen[e])

\* entry := aw.pool.Get(); callB records the argument b of this call.
WriteStart(p) ==
    /\ At(p, "idle")
    /\ role[p] = "producer"
    /\ nextItem <= numWrites
    /\ \E e \in PoolGetChoices :
          /\ pool' = PoolAfterGet(e)
          /\ ent' = [ent EXCEPT ![p] = e]
    /\ cur' = [cur EXCEPT ![p] = nextItem]
    /\ callB' = [callB EXCEPT ![p] = b[p]]
    /\ nextItem' = nextItem + 1
    /\ late' = IF ShutdownComplete THEN late \cup {nextItem} ELSE late
    /\ pc' = [pc EXCEPT ![p] = "W_copy"]
    /\ UNCHANGED <<reqSize, ringVars, done, data, role, lh, lt, got, drain, mode,
                   putLog, getLog, sink, wres, preClose, b, arr, dlen, slotFor,
                   gotFor, fwd, sinkVars, libVars>>

\* entry.data = ...; copy(entry.data, b); then the first aw.rb.Put(entry)
WriteCopy(p) ==
    /\ At(p, "W_copy")
    /\ data' = [data EXCEPT ![ent[p]] = cur[p]]
    /\ arr' = [arr EXCEPT ![ent[p]] = WriteData(arr[ent[p]], b[p])]
    /\ dlen' = [dlen EXCEPT ![ent[p]] = Len(b[p])]
    /\ pc' = [pc EXCEPT ![p] = "P_head"]
    /\ UNCHANGED <<reqSize, ringVars, done, pool, role, lh, lt, ent, got, cur,
                   drain, mode, nextItem, histVars, b, callB, slotFor, gotFor,
                   fwd, sinkVars, libVars>>

\* Put returned false: if aw.done.Load() { aw.pool.Put(entry); return 0,
\* io.ErrClosedPipe }; otherwise aw.rb.Get() to help consume.
WriteCheckDone(p) ==
    /\ At(p, "W_done")
    /\ IF done
       THEN /\ pool' = PoolAfterPut(ent[p])
            /\ wres' = [wres EXCEPT ![cur[p]] = "closed"]
            /\ ent' = [ent EXCEPT ![p] = 0]
            /\ cur' = [cur EXCEPT ![p] = 0]
            /\ pc' = [pc EXCEPT ![p] = "idle"]
       ELSE /\ pc' = [pc EXCEPT ![p] = "G_tail"]
            /\ UNCHANGED <<pool, wres, ent, cur>>
    /\ UNCHANGED <<reqSize, ringVars, done, data, role, lh, lt, got, drain,
                   mode, nextItem, putLog, getLog, sink, late, preClose,
                   copyVars, sinkVars, libVars>>

\* ------------------------------------- a consumer: worker or helping Write

\* What aw.writer.Write can return as its error: an io.Writer may fail.
SinkResults == IF writer = "failing" THEN BOOLEAN ELSE {FALSE}

\* Lines 143 and 159: the result of aw.writer.Write is not looked at; the
\* consumer goes on to reset the entry.
AfterSinkWriteStop(err) == IF err THEN "exited" ELSE "C_reset"
AfterSinkWrite(err) == "C_reset"

\* aw.writer.Write(entry.data); the result is discarded.
SinkWrite(p) ==
    /\ At(p, "C_sink")
    /\ sink' = Append(sink, data[got[p]])
    /\ fwd' = fwd \cup {<<gotFor[p], EntryData(got[p])>>}
    /\ \E err \in SinkResults :
          /\ serr' = [serr EXCEPT ![p] = err]
          /\ pc' = [pc EXCEPT ![p] = AfterSinkWrite(err)]
    /\ UNCHANGED <<reqSize, ringVars, done, pool, data, role, lh, lt, ent, got,
                   cur, drain, mode, nextItem, putLog, getLog, wres, late,
                   preClose, b, callB, arr, dlen, slotFor, gotFor, envVars,
                   libVars>>

\* entry.data = entry.data[:0]
ResetEntry(p) ==
    /\ At(p, "C_reset")
    /\ data' = [data EXCEPT ![got[p]] = 0]
    /\ dlen' = [dlen EXCEPT ![got[p]] = 0]
    /\ pc' = [pc EXCEPT ![p] = "C_pool"]
    /\ UNCHANGED <<reqSize, ringVars, done, pool, role, lh, lt, ent, got, cur,
                   drain, mode, nextItem, histVars, b, callB, arr, slotFor,
                   gotFor, fwd, sinkVars, libVars>>

\* aw.pool.Put(entry); a Write retries its Put, a worker loops.
PoolPut(p) ==
    /\ At(p, "C_pool")
    /\ pool' = PoolAfterPut(got[p])
    /\ got' = [got EXCEPT ![p] = 0]
    /\ pc' = [pc EXCEPT ![p] =
                 IF role[p] = "producer" THEN "P_head"
                 ELSE IF drain[p] THEN "G_tail" ELSE "K_done"]
    /\ UNCHANGED <<reqSize, ringVars, done, data, role, lh, lt, ent, cur,
                   drain, mode, nextItem, histVars, copyVars, sinkVars,
                   libVars>>

\* ----------------------------------------------------- AsyncWriterV2.worker

\* for !aw.done.Load() { aw.rb.Get() ... }; once done is seen, the drain loop.
WorkerLoop(p) ==
    /\ At(p, "K_done")
    /\ drain' = [drain EXCEPT ![p] = done]
    /\ pc' = [pc EXCEPT ![p] = "G_tail"]
    /\ UNCHANGED <<reqSize, ringVars, done, pool, data, role, lh, lt, ent, got,
                   cur, mode, nextItem, histVars, copyVars, sinkVars, libVars>>

\* ------------------------------------------------------ AsyncWriterV2.Close

\* aw.done.Store(true); a second Close stores the same value.
Close ==
    /\ ~Crashed
    /\ ~done
    /\ done' = TRUE
    /\ preClose' = {putLog[i] : i \in 1..Len(putLog)}
    /\ UNCHANGED <<reqSize, ringVars, pool, data, role, pc, lh, lt, ent, got,
                   cur, drain, mode, nextItem, putLog, getLog, sink, wres,
                   late, copyVars, sinkVars, libVars>>

\* ------------------------------------------------- callers of the raw ring

\* A task calls rb.Put with a fresh item.
RawPut(p) ==
    /\ At(p, "idle")
    /\ role[p] = "putter"
    /\ nextItem <= MaxItems
    /\ ent' = [ent EXCEPT ![p] = nextItem]
    /\ nextItem' = nextItem + 1
    /\ pc' = [pc EXCEPT ![p] = "P_head"]
    /\ UNCHANGED <<reqSize, ringVars, done, pool, data, role, lh, lt, got, cur,
                   drain, mode, histVars, copyVars, sinkVars, libVars>>

\* A task calls rb.Get.
RawGet(p) ==
    /\ At(p, "idle")
    /\ role[p] = "getter"
    /\ pc' = [pc EXCEPT ![p] = "G_tail"]
    /\ UNCHANGED <<reqSize, ringVars, done, pool, data, role, lh, lt, ent, got,
                   cur, drain, mode, nextItem, histVars, copyVars, sinkVars,
                   libVars>>

\* A single task that fills and then empties the ring, round after round:
\* some successful Puts, then as many Gets, with nothing in between.
SeqPut(p) ==
    /\ At(p, "idle")
    /\ role[p] = "seq"
    /\ mode = "fill"
    /\ nextItem <= MaxItems
    /\ ent' = [ent EXCEPT ![p] = nextItem]
    /\ nextItem' = nextItem + 1
    /\ pc' = [pc EXCEPT ![p] = "P_head"]
    /\ UNCHANGED <<reqSize, ringVars, done, pool, data, role, lh, lt, got, cur,
                   drain, mode, histVars, copyVars, sinkVars, libVars>>

SeqTurn(p) ==
    /\ At(p, "idle")
    /\ role[p] = "seq"
    /\ mode = "fill"
    /\ Len(putLog) >= 1
    /\ mode' = "drain"
    /\ UNCHANGED <<reqSize, ringVars, done, pool, data, role, pc, lh, lt, ent,
                   got, cur, drain, nextItem, histVars, copyVars, sinkVars,
                   libVars>>

SeqGet(p) ==
    /\ At(p, "idle")
    /\ role[p] = "seq"
    /\ mode = "drain"
    /\ Len(getLog) < Len(putLog)
    /\ pc' = [pc EXCEPT ![p] = "G_tail"]
    /\ UNCHANGED <<reqSize, ringVars, done, pool, data, role, lh, lt, ent, got,
                   cur, drain, mode, nextItem, histVars, copyVars, sinkVars,
                   libVars>>

\* The round is over: the next one starts from the positions this one left.
SeqNewRound(p) ==
    /\ At(p, "idle")
    /\ role[p] = "seq"
    /\ mode = "drain"
    /\ Len(getLog) = Len(putLog)
    /\ mode' = "fill"
    /\ putLog' = <<>>
    /\ getLog' = <<>>
    /\ UNCHANGED <<reqSize, ringVars, done, pool, data, role, pc, lh, lt, ent,
                   got, cur, drain, nextItem, sink, wres, late, preClose,
                   copyVars, sinkVars, libVars>>

\* What the caller writes into its slice for its next call: call k passes
\* (k mod MaxLen) + 1 bytes of value k, so that calls differ in length and
\* in content.
NextPayload == [i \in 1..((nextItem % MaxLen) + 1) |-> nextItem]

\* The caller of Write overwrites its slice between two calls (or does not,
\* and passes the bytes of the call before).
CallerFill(p) ==
    /\ At(p, "idle")
    /\ role[p] = "producer"
    /\ nextItem <= numWrites
    /\ b[p] # NextPayload
    /\ b' = [b EXCEPT ![p] = NextPayload]
    /\ UNCHANGED <<reqSize, ringVars, done, pool, data, role, pc, lh, lt, ent, got,
                   cur, drain, mode, nextItem, histVars, callB, arr, dlen,
                   slotFor, gotFor, fwd, sinkVars, libVars>>

\* ------------------------------------------------------------- BufferPool

\* len64tab, index 0..63 (the sequence is indexed from 1).
len64tab ==
    <<64, 63, 62, 62, 61, 61, 61, 61, 60, 60, 60, 60, 60, 60, 60, 60,
      59, 59, 59, 59, 59, 59, 59, 59, 59, 59, 59, 59, 59, 59, 59, 59,
      58, 58, 58, 58, 58, 58, 58, 58, 58, 58, 58, 58, 58, 58, 58, 58,
      58, 58, 58, 58, 58, 58, 58, 58, 58, 58, 58, 58, 58, 58, 58, 58>>

\* x >> k on a uint64 that is below 2^31, as every size and capacity of the
\* model is: shifting by 31 or more leaves nothing.
Ushr(x, k) == IF k >= 31 THEN 0 ELSE x \div (2 ^ k)

\* leadingZeros64: the sum of eight table entries, one per 6-bit group of x
\* from bit 58 down to bit 16.
leadingZeros64(x) ==
    len64tab[Ushr(x, 58) + 1]
    + len64tab[BitAnd(Ushr(x, 52), 63) + 1]
    + len64tab[BitAnd(Ushr(x, 46), 63) + 1]
    + len64tab[BitAnd(Ushr(x, 40), 63) + 1]
    + len64tab[BitAnd(Ushr(x, 34), 63) + 1]
    + len64tab[BitAnd(Ushr(x, 28), 63) + 1]
    + len64tab[BitAnd(Ushr(x, 22), 63) + 1]
    + len64tab[BitAnd(Ushr(x, 16), 63) + 1]

\* bits := 64 - leadingZeros64(uint64(n-1)); idx := bits - 6
ClassIdxZero(n) == 0
ClassIdx(n) == (64 - leadingZeros64(n - 1)) - 6

\* Get, lines 59-68: size <= 0 becomes 64, idx < 0 becomes 0.
GetSize(size) == IF size <= 0 THEN 64 ELSE size
GetClass(size) == IF ClassIdx(GetSize(size)) < 0 THEN 0 ELSE ClassIdx(GetSize(size))

\* NewBufferPool: size := 1 << (i + 6)
ClassSize(i) == 2 ^ (i + 6)

\* Line 77: the buffer from the class pool is replaced when it is too small.
TooSmallNever(c, size) == FALSE
TooSmall(c, size) == c < size

\* Put, line 98: the free list of class idx takes a buffer of capacity c.
PutKeeps(c, idx) ==
    IF idx >= 0 /\ idx < NumClasses THEN c = ClassSize(idx) ELSE FALSE

\* A buffer nothing points to, and the class of a call that used no class.
NoBuffer == [cap |-> 0, len |-> 0, req |-> 0]
NoClass == -1

\* A buffer that is neither held by a caller nor in a free list.
FreshBuffers ==
    {x \in Buffers : x \notin bpHeld /\ \A i \in Classes : x \notin bpools[i]}

\* The buffer bp.pools[idx].Get() returns: one of the free list (kept as
\* retaining what was put), or a new one from New.
ClassGetChoices(idx) == IF bpools[idx] # {} THEN bpools[idx] ELSE FreshBuffers

\* BufferPool.Get(size).  bpLast records the class used, the number of
\* make calls, whether the call just before was the Put of a buffer got for
\* this same size (again), and whether that very buffer came back (reused).
BpGet(size) ==
    \E idx \in {GetClass(size)} :
        IF idx >= NumClasses
        THEN \* b := make([]byte, 0, size); return &b
             \E x \in FreshBuffers :
                 /\ bufs' = [bufs EXCEPT ![x] =
                               [cap |-> GetSize(size), len |-> 0, req |-> size]]
                 /\ bpools' = bpools
                 /\ bpHeld' = bpHeld \cup {x}
                 /\ bpLast' = [op |-> "Get", size |-> size, buf |-> x,
                               class |-> NoClass, made |-> 1,
                               again |-> (bpLast.op = "Put" /\ bpLast.size = size),
                               reused |-> FALSE, cap |-> GetSize(size)]
                 /\ UNCHANGED <<awVars, twVars, logVars>>
        ELSE \* buf := bp.pools[idx].Get(); if cap(*buf) < size { ... }
             \E x \in ClassGetChoices(idx) :
                 \E old \in {IF x \in bpools[idx] THEN bufs[x]
                             ELSE [cap |-> ClassSize(idx), len |-> 0, req |-> 0]} :
                     /\ bufs' = [bufs EXCEPT ![x] =
                                   IF TooSmall(old.cap, GetSize(size))
                                   THEN [cap |-> GetSize(size), len |-> 0, req |-> size]
                                   ELSE [old EXCEPT !.req = size]]
                     /\ bpools' = [bpools EXCEPT ![idx] = @ \ {x}]
                     /\ bpHeld' = bpHeld \cup {x}
                     /\ bpLast' = [op |-> "Get", size |-> size, buf |-> x,
                                   class |-> idx,
                                   made |-> (IF x \in bpools[idx] THEN 0 ELSE 1)
                                            + (IF TooSmall(old.cap, GetSize(size))
                                               THEN 1 ELSE 0),
                                   again |-> (bpLast.op = "Put" /\ bpLast.size = size),
                                   reused |-> /\ bpLast.op = "Put"
                                              /\ bpLast.size = size
                                              /\ bpLast.buf = x
                                              /\ x \in bpools[idx]
                                              /\ ~TooSmall(old.cap, GetSize(size)),
                                   cap |-> IF TooSmall(old.cap, GetSize(size))
                                           THEN GetSize(size) ELSE old.cap]
                     /\ UNCHANGED <<awVars, twVars, logVars>>

\* The caller extends the buffer it holds, as in *buf = (*buf)[:100], here up
\* to its capacity.
BpUse(x) ==
    /\ x \in bpHeld
    /\ bufs[x].len = 0
    /\ bufs' = [bufs EXCEPT ![x].len = bufs[x].cap]
    /\ bpLast' = [bpLast EXCEPT !.op = "use"]
    /\ UNCHANGED <<bpools, bpHeld, awVars, twVars, logVars>>

\* BufferPool.Put(buf): *buf = (*buf)[:0], then the free list of the class
\* takes it or not; nothing more happens to a buffer of capacity 0.  A buffer
\* that no free list takes is garbage.  bpLast records the size the buffer
\* had been got for and its capacity.
BpPut(x) ==
    /\ x \in bpHeld
    /\ \E idx \in {IF bufs[x].cap = 0 THEN NoClass ELSE ClassIdx(bufs[x].cap)} :
          IF bufs[x].cap # 0 /\ PutKeeps(bufs[x].cap, idx)
          THEN /\ bufs' = [bufs EXCEPT ![x].len = 0]
               /\ bpools' = [bpools EXCEPT ![idx] = @ \cup {x}]
               /\ bpLast' = [op |-> "Put", size |-> bufs[x].req, buf |-> x,
                             class |-> idx, made |-> 0, again |-> FALSE,
                             reused |-> FALSE, cap |-> bufs[x].cap]
          ELSE /\ bufs' = [bufs EXCEPT ![x] = NoBuffer]
               /\ bpools' = bpools
               /\ bpLast' = [op |-> "Put", size |-> bufs[x].req, buf |-> x,
                             class |-> NoClass, made |-> 0, again |-> FALSE,
                             reused |-> FALSE, cap |-> bufs[x].cap]
    /\ bpHeld' = bpHeld \ {x}
    /\ UNCHANGED <<awVars, twVars, logVars>>

\* The caller stores another slice through the pointer it holds before it
\* puts it back (*bufPtr = buf after buf = make(...)): a slice it has
\* grown, reallocated or obtained elsewhere, of capacity c.
BpStore(x, c) ==
    /\ x \in bpHeld
    /\ bufs[x].cap # c
    /\ bufs' = [bufs EXCEPT ![x] = [cap |-> c, len |-> c, req |-> bufs[x].req]]
    /\ bpLast' = [bpLast EXCEPT !.op = "store"]
    /\ UNCHANGED <<bpools, bpHeld, awVars, twVars, logVars>>

\* ---------------------------------------------------------- binary records

\* MagicHeader 0x5A4C4F47 as *(*uint32) stores it (little-endian), Version,
\* termMsgJust and len(spaces).
MagicBytes == <<71, 79, 76, 90>>
Version == 1
termMsgJust == 40
LenSpaces == 40

\* Field types: FieldTypeInt .. FieldTypeBytes are 0 .. 6.
FieldTypeInt == 0
FieldTypeUint == 1
FieldTypeFloat32 == 2
FieldTypeFloat64 == 3
FieldTypeString == 4
FieldTypeBool == 5
FieldTypeBytes == 6

\* b[i] with Go's index i (from 0); a read outside the slice is recorded by
\* the decoder and yields 0 here.
ByteAt(bytes, i) == IF i >= 0 /\ i < Len(bytes) THEN bytes[i + 1] ELSE 0

\* b[lo:hi]
Slice(bytes, lo, hi) == [k \in 1..(hi - lo) |-> ByteAt(bytes, lo + k - 1)]

\* byte(x >> (8 * k)) of a 64-bit x between -2^31 and 2^31 - 1 (uint64(x)
\* for a negative x is its two's complement).
ByteOf(x, k) ==
    IF k >= 4 THEN (IF x < 0 THEN 255 ELSE 0) ELSE (x \div (2 ^ (8 * k))) % 256

\* *(*uint64)(p) = x and *(*uint16)(p) = uint16(x): least significant first.
LE64(x) == [k \in 1..8 |-> ByteOf(x, k - 1)]
LE16(x) == <<ByteOf(x, 0), ByteOf(x, 1)>>

\* byte(x >> 56), ..., byte(x): most significant first.
BE64(x) == [k \in 1..8 |-> ByteOf(x, 8 - k)]
BE32(x) == [k \in 1..4 |-> ByteOf(x, 4 - k)]
BE16(x) == <<ByteOf(x, 1), ByteOf(x, 0)>>

\* int(*(*uint16)(unsafe.Pointer(&b[i]))) and int(uint16(b[i])<<8 | b[i+1])
U16LE(bytes, i) == ByteAt(bytes, i) + 256 * ByteAt(bytes, i + 1)
U16BE(bytes, i) == 256 * ByteAt(bytes, i) + ByteAt(bytes, i + 1)

\* *(*uint64)(unsafe.Pointer(&b[i])) as its eight bytes, most significant
\* first (the value does not fit TLC's integers).
U64LE(bytes, i) == [k \in 1..8 |-> ByteAt(bytes, i + 8 - k)]

\* ------------------------------------------------ TerminalWriter (decoder)

\* What a rendered line is made of.  A value is kept as the bytes it is
\* rendered from, with the type that selects the rendering (decimal, float,
\* escaped string, true/false, hex); '?' is the placeholder.
NoType == -1
Space == [kind |-> "space", type |-> NoType, data |-> <<>>]
Placeholder == [kind |-> "?", type |-> NoType, data |-> <<>>]
KeyTok(k) == [kind |-> "key", type |-> NoType, data |-> k]
ValueTok(t, d) == [kind |-> "value", type |-> t, data |-> d]

\* The guards len(b)-pos < n of decodeFieldValueBuf.
ValueFitsAlways(bytes, pos, n) == TRUE
ValueFits(bytes, pos, n) == ~(Len(bytes) - pos < n)

\* The width of a fixed-width value, 0 for the other types.
FixedWidth(fieldType) ==
    IF fieldType \in {FieldTypeInt, FieldTypeUint, FieldTypeBool, FieldTypeFloat64}
    THEN 8
    ELSE IF fieldType = FieldTypeFloat32 THEN 4 ELSE 0

\* decodeFieldValueBuf(buf, b, pos, fieldType): the token appended, the new
\* pos, and the indices of b it read.
decodeFieldValueBuf(bytes, pos, fieldType) ==
    IF FixedWidth(fieldType) > 0
    THEN IF ~ValueFits(bytes, pos, FixedWidth(fieldType))
         THEN [tok |-> Placeholder, pos |-> pos + FixedWidth(fieldType), reads |-> {}]
         ELSE [tok |-> IF fieldType = FieldTypeBool
                       THEN ValueTok(fieldType,
                                     IF Slice(bytes, pos, pos + 8) = BE64(0)
                                     THEN <<0>> ELSE <<1>>)
                       ELSE ValueTok(fieldType,
                                     Slice(bytes, pos, pos + FixedWidth(fieldType))),
               pos |-> pos + FixedWidth(fieldType),
               reads |-> pos..(pos + FixedWidth(fieldType) - 1)]
    ELSE IF fieldType \in {FieldTypeString, FieldTypeBytes}
    THEN IF ~ValueFits(bytes, pos, 2)
         THEN [tok |-> Placeholder, pos |-> pos + 2, reads |-> {}]
         ELSE IF ~ValueFits(bytes, pos, 2 + U16BE(bytes, pos))
         THEN [tok |-> Placeholder, pos |-> pos + 2 + U16BE(bytes, pos),
               reads |-> {pos, pos + 1}]
         ELSE [tok |-> ValueTok(fieldType,
                                Slice(bytes, pos + 2, pos + 2 + U16BE(bytes, pos))),
               pos |-> pos + 2 + U16BE(bytes, pos),
               reads |-> pos..(pos + 1 + U16BE(bytes, pos))]
    ELSE [tok |-> Placeholder, pos |-> pos, reads |-> {}]

\* The field loop of Write (lines 184-225) from field i at pos on: acc holds
\* the tokens appended and the indices read so far; the result also tells
\* how many fields the loop began and where the cursor ended.
RECURSIVE decodeFields(_, _, _, _, _)
decodeFields(bytes, pos, i, fieldCount, acc) ==
    IF ~(i < fieldCount /\ pos < Len(bytes))
    THEN [items |-> acc.items, reads |-> acc.reads, begun |-> i, pos |-> pos]
    ELSE \* keyLen := int(b[pos]); pos++
         IF pos + 1 + ByteAt(bytes, pos) > Len(bytes)
         THEN \* break, after the separating space
              [items |-> acc.items \o (IF i > 0 THEN <<Space>> ELSE <<>>),
               reads |-> acc.reads \cup {pos}, begun |-> i + 1, pos |-> pos + 1]
         ELSE IF pos + 1 + ByteAt(bytes, pos) >= Len(bytes)
         THEN \* pos += keyLen; break
              [items |-> acc.items \o (IF i > 0 THEN <<Space>> ELSE <<>>),
               reads |-> acc.reads \cup {pos}, begun |-> i + 1,
               pos |-> pos + 1 + ByteAt(bytes, pos)]
         ELSE decodeFields(
                  bytes,
                  decodeFieldValueBuf(bytes, pos + 2 + ByteAt(bytes, pos),
                                      ByteAt(bytes, pos + 1 + ByteAt(bytes, pos))).pos,
                  i + 1, fieldCount,
                  [items |-> acc.items
                             \o (IF i > 0 THEN <<Space>> ELSE <<>>)
                             \o <<KeyTok(Slice(bytes, pos + 1, pos + 1 + ByteAt(bytes, pos)))>>
                             \o <<decodeFieldValueBuf(
                                      bytes, pos + 2 + ByteAt(bytes, pos),
                                      ByteAt(bytes, pos + 1 + ByteAt(bytes, pos))).tok>>,
                   reads |-> acc.reads
                             \cup (pos..(pos + 1 + ByteAt(bytes, pos)))
                             \cup decodeFieldValueBuf(
                                      bytes, pos + 2 + ByteAt(bytes, pos),
                                      ByteAt(bytes, pos + 1 + ByteAt(bytes, pos))).reads])

\* What Write does once the layout is known (lines 138-234): the line it
\* renders and the indices of b it reads for it.
WriteBody(bytes, useColor, layout, tsAt, msgLen, msgStart) ==
    LET msgEnd == IF msgLen > 0 THEN msgStart + msgLen ELSE 0
        pos == msgStart + msgLen
        padding == termMsgJust - (msgEnd - msgStart)
        flds == IF pos < Len(bytes)
                THEN decodeFields(bytes, pos + 1, 0, ByteAt(bytes, pos),
                                  [items |-> <<>>, reads |-> {pos}])
                ELSE [items |-> <<>>, reads |-> {}, begun |-> 0, pos |-> pos]
    IN  [err |-> "none",
         layout |-> layout,
         line |-> [level |-> IF ByteAt(bytes, 5) < 5 THEN ByteAt(bytes, 5) ELSE 5,
                   color |-> useColor /\ ByteAt(bytes, 5) < 5,
                   ts |-> U64LE(bytes, tsAt),
                   msg |-> IF msgEnd > msgStart
                           THEN Slice(bytes, msgStart, msgEnd) ELSE <<>>,
                   pad |-> IF pos < Len(bytes) /\ msgEnd - msgStart < termMsgJust
                              /\ padding > 0 /\ padding <= LenSpaces
                           THEN padding ELSE 0,
                   items |-> flds.items],
         count |-> IF pos < Len(bytes) THEN ByteAt(bytes, pos) ELSE 0,
         begun |-> flds.begun,
         pos |-> flds.pos,
         reads |-> (0..3) \cup {5, 14, 15} \cup (tsAt..(tsAt + 7))
                   \cup (IF layout = "Structured" THEN {22} ELSE {})
                   \cup (IF msgEnd > msgStart THEN msgStart..(msgEnd - 1) ELSE {})
                   \cup flds.reads]

NoLine == [level |-> 5, color |-> FALSE, ts |-> <<>>, msg |-> <<>>, pad |-> 0,
           items |-> <<>>]
WriteFails(e, r) ==
    [err |-> e, layout |-> "none", line |-> NoLine, count |-> 0, begun |-> 0,
     pos |-> 0, reads |-> r]

\* The layout tests of Write (lines 108-136).
LooksBasicAnyLength(bytes) == Len(bytes) >= 16 + U16LE(bytes, 14)
LooksBasic(bytes) ==
    /\ U16LE(bytes, 14) > 0
    /\ U16LE(bytes, 14) <= 65535
    /\ Len(bytes) >= 16 + U16LE(bytes, 14)
LooksStructured(bytes) == Len(bytes) >= 23 + ByteAt(bytes, 22)

\* TerminalWriter.Write(b) up to the write to w.out: the error or the line,
\* the layout chosen, and the indices of b read.
TwDecode(bytes, useColor) ==
    IF Len(bytes) < 16 THEN WriteFails("too short", {})
    ELSE IF Slice(bytes, 0, 4) # MagicBytes
    THEN WriteFails("invalid magic header", 0..3)
    ELSE IF LooksBasic(bytes)
    THEN WriteBody(bytes, useColor, "Basic", 6, U16LE(bytes, 14), 16)
    ELSE IF Len(bytes) >= 23
    THEN IF LooksStructured(bytes)
         THEN WriteBody(bytes, useColor, "Structured", 14, ByteAt(bytes, 22), 23)
         ELSE WriteFails("cannot determine format", (0..3) \cup {5, 14, 15, 22})
    ELSE WriteFails("message truncated", (0..3) \cup {5, 14, 15})

\* ------------------------------------------------------------ the encoders

Min(x, y) == IF x <= y THEN x ELSE y

\* A Field, as the constructors Int, Uint, Float32, Float64, String, Bool
\* and Bytes build it: Key, Type, num (int, uint, bool and float bits, or the length of
\* the bytes) and str (the string, or the bytes ptr points to).
IntField(key, val) == [Key |-> key, Type |-> FieldTypeInt, num |-> val, str |-> <<>>]
UintField(key, val) == [Key |-> key, Type |-> FieldTypeUint, num |-> val, str |-> <<>>]
Float32Field(key, bits) == [Key |-> key, Type |-> FieldTypeFloat32, num |-> bits, str |-> <<>>]
Float64Field(key, bits) == [Key |-> key, Type |-> FieldTypeFloat64, num |-> bits, str |-> <<>>]
StringField(key, val) == [Key |-> key, Type |-> FieldTypeString, num |-> 0, str |-> val]
BoolField(key, val) ==
    [Key |-> key, Type |-> FieldTypeBool, num |-> IF val THEN 1 ELSE 0, str |-> <<>>]
BytesField(key, val) ==
    [Key |-> key, Type |-> FieldTypeBytes, num |-> Len(val), str |-> val]

\* encodeField(buf, f) with len(buf) = avail: the bytes written, whose
\* number is the result.
encodeField(avail, f) ==
    IF avail < 10 THEN <<>>
    ELSE LET keyLen == Min(Min(Len(f.Key), 255), avail - 2)
             pre == <<keyLen>> \o SubSeq(f.Key, 1, keyLen) \o <<f.Type>>
             room == avail - (keyLen + 2)
         IN  IF f.Type \in {FieldTypeInt, FieldTypeUint, FieldTypeBool, FieldTypeFloat64}
             THEN IF room < 8 THEN pre ELSE pre \o BE64(f.num)
             ELSE IF f.Type = FieldTypeFloat32
             THEN IF room < 4 THEN pre ELSE pre \o BE32(f.num)
             ELSE IF f.Type = FieldTypeString
             THEN IF room < 2 THEN pre
                  ELSE pre \o BE16(Min(Min(Len(f.str), room - 2), 65535))
                            \o SubSeq(f.str, 1, Min(Min(Len(f.str), room - 2), 65535))
             ELSE IF f.Type = FieldTypeBytes
             THEN IF room < 2 THEN pre
                  ELSE pre \o BE16(Min(Min(f.num, room - 2), 65535))
                            \o SubSeq(f.str, 1, Min(Min(f.num, room - 2), 65535))
             ELSE pre

\* writeBinaryHeader(buf, level, seq): magic, version, level, sequence at
\* offset 6 and the clock's timestamp at offset 14, 22 bytes.
writeBinaryHeaderSeqLast(level, seq, ts) ==
    MagicBytes \o <<Version, level % 256>> \o LE64(ts) \o LE64(seq)
writeBinaryHeader(level, seq, ts) ==
    MagicBytes \o <<Version, level % 256>> \o LE64(seq) \o LE64(ts)

\* The message part of the Structured layout: byte(msgLen), msg[:msgLen].
MsgPart(msg, limit) ==
    <<Min(Len(msg), limit)>> \o SubSeq(msg, 1, Min(Len(msg), limit))

\* The field loop of formatStructuredMessage over fields i .. fieldCount-1:
\* a field is encoded while pos < len(buf) - 64.  pos never decreases, so
\* an iteration after the loop has stopped changes nothing, and the range is
\* walked in halves, the first half to its end before the second begins.
RECURSIVE encodeFields(_, _, _, _, _)
encodeFields(bufLen, out, i, fieldCount, fields) ==
    IF i >= fieldCount THEN out
    ELSE IF i + 1 = fieldCount
    THEN IF Len(out) < bufLen - 64
         THEN out \o encodeField(bufLen - Len(out), fields[i + 1])
         ELSE out
    ELSE CHOOSE all \in
             { encodeFields(bufLen, firstHalf, (i + fieldCount) \div 2, fieldCount, fields) :
                   firstHalf \in {encodeFields(bufLen, out, i, (i + fieldCount) \div 2, fields)} } :
             TRUE

\* StructuredLogger.formatStructuredMessage into a buffer of bufLen bytes:
\* buf[:n].
formatStructuredMessage(bufLen, level, seq, ts, msg, fields) ==
    encodeFields(bufLen,
                 writeBinaryHeader(level, seq, ts) \o MsgPart(msg, 255)
                     \o <<Min(Len(fields), 255)>>,
                 0, Min(Len(fields), 255), fields)

\* The buffer logFields hands to formatStructuredMessage: the 512-byte
\* stack buffer, or all of a pooled buffer got for estimatedSize + 256.
RECURSIVE EstimateFields(_, _, _)
EstimateFields(fields, lo, hi) ==
    IF lo > hi THEN 0
    ELSE IF lo = hi THEN 2 + Len(fields[lo].Key) + 16
    ELSE EstimateFields(fields, lo, (lo + hi) \div 2)
         + EstimateFields(fields, (lo + hi) \div 2 + 1, hi)
LogFieldsBufLen(msg, fields) ==
    LET estimatedSize == 24 + Min(Len(msg), 255) + EstimateFields(fields, 1, Len(fields))
    IN  IF estimatedSize <= 512 THEN 512 ELSE GetSize(estimatedSize + 256)

\* The field loop of logKV: it also stops when encodeField wrote nothing,
\* which depends on the room left only (len(buf) < 10), so here too a later
\* iteration changes nothing.
RECURSIVE encodeKV(_, _, _, _, _)
encodeKV(bufLen, out, i, fieldCount, fields) ==
    IF i >= fieldCount THEN out
    ELSE IF i + 1 = fieldCount
    THEN IF ~(Len(out) >= bufLen - 64)
         THEN out \o encodeField(bufLen - Len(out), fields[i + 1])
         ELSE out
    ELSE CHOOSE all \in
             { encodeKV(bufLen, firstHalf, (i + fieldCount) \div 2, fieldCount, fields) :
                   firstHalf \in {encodeKV(bufLen, out, i, (i + fieldCount) \div 2, fields)} } :
             TRUE

\* StructuredLogger.logKV: the bytes it writes, buf[:pos], the key-value
\* pairs given as the fields they are converted to; len(buf) is
\* 256 + len(msg).
logKV(level, seq, ts, msg, fields) ==
    encodeKV(256 + Len(msg),
             writeBinaryHeader(level, seq, ts) \o MsgPart(msg, 255)
                 \o <<Min(Len(fields), 255)>>,
             0, Min(Len(fields), 255), fields)

\* Logger.formatMessage into buf[:16+len(msg)]: the Basic layout.
formatMessage(level, ts, msg) ==
    MagicBytes \o <<Version, level % 256>> \o LE64(ts) \o LE16(Len(msg)) \o msg

\* UltimateLogger.log and formatUltimateMessage: msgLen is capped by log.
UltimateMsgCap == 200
formatUltimateMessage(level, seq, ts, msg) ==
    writeBinaryHeader(level, seq, ts) \o MsgPart(msg, UltimateMsgCap)

\* What a caller gives a logger, with the sequence number and the clock
\* value the logger will use.
NoRecord == [logger |-> "none", level |-> 0, seq |-> 0, ts |-> 0, msg |-> <<>>,
             fields |-> <<>>]

\* The bytes the logger of record r hands to its writer.
EncodeRecord(r) ==
    CASE r.logger = "Logger" -> formatMessage(r.level, r.ts, r.msg)
      [] r.logger = "Structured" ->
             formatStructuredMessage(LogFieldsBufLen(r.msg, r.fields),
                                     r.level, r.seq, r.ts, r.msg, r.fields)
      [] r.logger = "KV" -> logKV(r.level, r.seq, r.ts, r.msg, r.fields)
      [] r.logger = "Ultimate" ->
             formatUltimateMessage(r.level, r.seq, r.ts, r.msg)
      [] OTHER -> <<>>

\* ----------------------------------------------------- terminal: the calls

\* w.buf after Write: untouched when Write returned an error before line
\* 145, else the rendered line (w.buf = buf).
BufAfterAlways(w, d) == [w EXCEPT !.buf = d.line]
BufAfter(w, d) == IF d.err # "none" THEN w ELSE [w EXCEPT !.buf = d.line]

\* count, begun and pos are history: the field count read, the number of
\* fields the loop began, and the final cursor.
NoResult == [n |-> 0, err |-> "none", layout |-> "none", reads |-> {},
             count |-> 0, begun |-> 0, pos |-> 0]

\* The logger encodes the caller's record.
TwEncode ==
    /\ twPc = "encode"
    /\ twIn' = EncodeRecord(twRec)
    /\ twPc' = "write"
    /\ UNCHANGED <<tw, twOut, twRec, twRes, twLog, awVars, bpVars, logVars>>

\* TerminalWriter.Write(twIn): on an error it returns before it touches
\* w.buf or w.out; otherwise it renders the line into w.buf, keeps it there
\* and writes it to w.out.
TwWrite ==
    /\ twPc = "write"
    /\ \E d \in {TwDecode(twIn, tw.useColor)} :
          IF d.err # "none"
          THEN /\ twRes' = [n |-> 0, err |-> d.err, layout |-> d.layout,
                            reads |-> d.reads, count |-> 0, begun |-> 0,
                            pos |-> 0]
               /\ tw' = BufAfter(tw, d)
               /\ twOut' = twOut
          ELSE /\ tw' = BufAfter(tw, d)
               /\ twOut' = Append(twOut, d.line)
               /\ twRes' = [n |-> Len(twIn), err |-> "none", layout |-> d.layout,
                            reads |-> d.reads, count |-> d.count,
                            begun |-> d.begun, pos |-> d.pos]
    /\ twLog' = Append(twLog, twIn)
    /\ twPc' = "done"
    /\ UNCHANGED <<twRec, twIn, awVars, bpVars, logVars>>

\* The caller submits the next record of a stream.
TwSubmit(bytes) ==
    /\ twPc = "done"
    /\ Len(twLog) < MaxStream
    /\ twIn' = bytes
    /\ twPc' = "write"
    /\ UNCHANGED <<tw, twOut, twRec, twRes, twLog, awVars, bpVars, logVars>>

\* ----------------------------------------------------------- OldRingBuffer

\* A slice Get returned, after entry e was given bytes src: a slice that
\* shares e's array sees the bytes copied over it; when the entry got a new
\* array (make, or a new entry from New) the slice keeps the old one.
HeldAfterPut(h, e, fresh, src) ==
    IF ~h.attached \/ h.entry # e THEN h
    ELSE IF fresh \/ Len(arr[e]) < Len(src) THEN [h EXCEPT !.attached = FALSE]
    ELSE [h EXCEPT !.mem = [i \in 1..Len(h.mem) |->
                               IF i <= Len(src) THEN src[i] ELSE h.mem[i]]]

\* OldRingBuffer.Put(data), lines 30-37: entry := orb.pool.Get(), the copy
\* into entry.data, then orb.rb.Put(entry), whose result is returned (on
\* false the entry is dropped).
OrbPut(p) ==
    /\ At(p, "idle")
    /\ role[p] = "compat"
    /\ nextItem <= MaxItems
    /\ \E e \in PoolGetChoices :
          /\ pool' = PoolAfterGet(e)
          /\ ent' = [ent EXCEPT ![p] = e]
          /\ data' = [data EXCEPT ![e] = nextItem]
          /\ arr' = [arr EXCEPT ![e] =
                        WriteData(IF pool[e] > 0 THEN arr[e] ELSE <<>>, NextPayload)]
          /\ dlen' = [dlen EXCEPT ![e] = Len(NextPayload)]
          /\ orbGot' = [i \in DOMAIN orbGot |->
                           HeldAfterPut(orbGot[i], e, pool[e] = 0, NextPayload)]
    /\ callB' = [callB EXCEPT ![p] = NextPayload]
    /\ nextItem' = nextItem + 1
    /\ pc' = [pc EXCEPT ![p] = "P_head"]
    /\ UNCHANGED <<reqSize, ringVars, done, role, lh, lt, got, cur, drain, mode,
                   histVars, b, slotFor, gotFor, fwd, sinkVars, bpVars, twVars,
                   slVars, cwVars>>

\* OldRingBuffer.Get(), line 42: entry, ok := orb.rb.Get()
OrbGet(p) ==
    /\ At(p, "idle")
    /\ role[p] = "compat"
    /\ Len(orbGot) < MaxItems
    /\ pc' = [pc EXCEPT ![p] = "G_tail"]
    /\ UNCHANGED <<reqSize, ringVars, done, pool, data, role, lh, lt, ent, got,
                   cur, drain, mode, nextItem, histVars, copyVars, sinkVars,
                   libVars>>

\* Lines 46-49: data := entry.data; entry.data = entry.data[:0];
\* orb.pool.Put(entry); return data, true.  put is the payload of the Put
\* that stored the entry.
OrbTake(p) ==
    /\ At(p, "O_take")
    /\ orbGot' = Append(orbGot, [entry |-> got[p], attached |-> TRUE,
                                 mem |-> EntryData(got[p]), put |-> gotFor[p]])
    /\ data' = [data EXCEPT ![got[p]] = 0]
    /\ dlen' = [dlen EXCEPT ![got[p]] = 0]
    /\ pool' = PoolAfterPut(got[p])
    /\ got' = [got EXCEPT ![p] = 0]
    /\ pc' = [pc EXCEPT ![p] = "idle"]
    /\ UNCHANGED <<reqSize, ringVars, done, role, lh, lt, ent, cur, drain, mode,
                   nextItem, histVars, b, callB, arr, slotFor, gotFor, fwd,
                   sinkVars, bpVars, twVars, slVars, cwVars>>

\* ------------------------------------------- loggers shared by goroutines

LevelDebug == 0
LevelInfo == 1

\* l.sequence.Add(1) and atomic.AddUint64(&l.sequence, 1): one atomic step
\* that returns the new value.
AddKeeps(x) == x
AddOne(x) == x + 1

\* shouldLog: l.level.Load() <= uint32(level); UltimateLogger returns when
\* atomic.LoadUint32(&l.level) > uint32(level).
shouldLog(level) == slLevel <= level

\* NewStructured (level 0) or NewUltimateLogger (level LevelInfo).
SlNew(kind) ==
    /\ slKind = "none"
    /\ slKind' = kind
    /\ slLevel' = IF kind = "Ultimate" THEN LevelInfo ELSE LevelDebug
    /\ UNCHANGED <<sequence, slPc, slCalls, slSeq, slRecs, slOut, awVars, bpVars, twVars,
                   cwVars, orbVars>>

\* Task p calls Debug or Info: a call below the logger's level returns at
\* once.
SlCall(p, level) ==
    /\ slKind # "none"
    /\ slPc[p] = "idle"
    /\ slCalls[p] < MaxCalls
    /\ slCalls' = [slCalls EXCEPT ![p] = @ + 1]
    /\ slPc' = [slPc EXCEPT ![p] = IF shouldLog(level) THEN "format" ELSE "idle"]
    /\ UNCHANGED <<slKind, slLevel, sequence, slSeq, slRecs, slOut, awVars, bpVars, twVars, cwVars, orbVars>>

\* formatStructuredMessage, logKV or formatUltimateMessage: the header gets
\* the value Add returned.
SlFormat(p) ==
    /\ slPc[p] = "format"
    /\ sequence' = AddOne(sequence)
    /\ slSeq' = [slSeq EXCEPT ![p] = sequence']
    /\ slRecs' = Append(slRecs, <<p, slCalls[p], sequence'>>)
    /\ slPc' = [slPc EXCEPT ![p] = "write"]
    /\ UNCHANGED <<slKind, slLevel, slCalls, slOut, awVars, bpVars, twVars, cwVars, orbVars>>

\* The record is given to the writer and the call returns.
SlWrite(p) ==
    /\ slPc[p] = "write"
    /\ slOut' = Append(slOut, <<p, slCalls[p], slSeq[p]>>)
    /\ slPc' = [slPc EXCEPT ![p] = "idle"]
    /\ UNCHANGED <<slKind, slLevel, sequence, slCalls, slSeq, slRecs, awVars, bpVars, twVars, cwVars, orbVars>>

\* ------------------------------------- TerminalWriter shared by goroutines

\* w.mu.Lock() returns when no task holds the mutex.
MuFreeAlways(holder) == TRUE
MuFree(holder) == holder = 0

\* A line is appended to buf in three parts: level and timestamp (lines
\* 151-166), message and padding (168-181), fields and newline (183-227).
LinePart(k, line) ==
    CASE k = 1 -> [level |-> line.level, color |-> line.color, ts |-> line.ts]
      [] k = 2 -> [msg |-> line.msg, pad |-> line.pad]
      [] OTHER -> [items |-> line.items]

\* The line the first three parts of the array make.
JoinParts(a) ==
    [level |-> a[1].level, color |-> a[1].color, ts |-> a[1].ts,
     msg |-> a[2].msg, pad |-> a[2].pad, items |-> a[3].items]

\* The calls that have passed the header checks.
CwBegun ==
    Len(cwLog) + Cardinality({q \in Tasks :
                                 cwPc[q] \in {"lock", "reset", "render", "save", "out"}})

\* Task p calls Write(bytes): the header checks of lines 89-142 use b only;
\* on an error the call returns there.
CwCall(p, bytes) ==
    /\ cwPc[p] = "idle"
    /\ CwBegun < MaxStream
    /\ cwIn' = [cwIn EXCEPT ![p] = bytes]
    /\ IF TwDecode(bytes, tw.useColor).err # "none"
       THEN UNCHANGED <<cwPc, cwOk>>
       ELSE /\ cwPc' = [cwPc EXCEPT ![p] = "lock"]
            /\ cwOk' = [cwOk EXCEPT ![p] = @ + 1]
    /\ UNCHANGED <<tw, twOut, twRec, twIn, twRes, twPc, twLog, cwMu, cwLen, cwArr,
                   cwLog, awVars, bpVars, slVars, orbVars>>

\* w.mu.Lock()
CwLock(p) ==
    /\ cwPc[p] = "lock"
    /\ MuFree(cwMu)
    /\ cwMu' = p
    /\ cwPc' = [cwPc EXCEPT ![p] = "reset"]
    /\ UNCHANGED <<twVars, cwIn, cwLen, cwArr, cwOk, cwLog, awVars, bpVars, slVars, orbVars>>

\* buf := w.buf[:0]
CwReset(p) ==
    /\ cwPc[p] = "reset"
    /\ cwLen' = [cwLen EXCEPT ![p] = 0]
    /\ cwPc' = [cwPc EXCEPT ![p] = "render"]
    /\ UNCHANGED <<twVars, cwMu, cwIn, cwArr, cwOk, cwLog, awVars, bpVars, slVars, orbVars>>

\* buf = append(buf, ...): the next part is stored in the array after the
\* len(buf) parts the task's slice has.
CwRender(p) ==
    /\ cwPc[p] = "render"
    /\ cwArr' = [cwArr EXCEPT ![cwLen[p] + 1] =
                    LinePart(cwLen[p] + 1, TwDecode(cwIn[p], tw.useColor).line)]
    /\ cwLen' = [cwLen EXCEPT ![p] = @ + 1]
    /\ cwPc' = [cwPc EXCEPT ![p] = IF cwLen[p] + 1 = 3 THEN "save" ELSE "render"]
    /\ UNCHANGED <<twVars, cwMu, cwIn, cwOk, cwLog, awVars, bpVars, slVars, orbVars>>

\* w.buf = buf
CwSave(p) ==
    /\ cwPc[p] = "save"
    /\ tw' = [tw EXCEPT !.buf = JoinParts(cwArr)]
    /\ cwPc' = [cwPc EXCEPT ![p] = "out"]
    /\ UNCHANGED <<twOut, twRec, twIn, twRes, twPc, twLog, cwMu, cwIn, cwLen, cwArr,
                   cwOk, cwLog, awVars, bpVars, slVars, orbVars>>

\* w.out.Write(buf): one Write with what the array holds now.
CwOut(p) ==
    /\ cwPc[p] = "out"
    /\ twOut' = Append(twOut, JoinParts(cwArr))
    /\ cwLog' = Append(cwLog, [task |-> p, in |-> cwIn[p], line |-> JoinParts(cwArr)])
    /\ cwPc' = [cwPc EXCEPT ![p] = "unlock"]
    /\ UNCHANGED <<tw, twRec, twIn, twRes, twPc, twLog, cwMu, cwIn, cwLen, cwArr,
                   cwOk, awVars, bpVars, slVars, orbVars>>

\* The deferred w.mu.Unlock(), and the return.
CwUnlock(p) ==
    /\ cwPc[p] = "unlock"
    /\ cwMu' = 0
    /\ cwPc' = [cwPc EXCEPT ![p] = "idle"]
    /\ UNCHANGED <<twVars, cwIn, cwLen, cwArr, cwOk, cwLog, awVars, bpVars, slVars, orbVars>>

\* ---------------------------------------------------------------- initial

\* No logger is shared yet.
InitCallers ==
    /\ slKind = "none"
    /\ slLevel = 0
    /\ sequence = 0
    /\ slPc = [p \in Tasks |-> "idle"]
    /\ slCalls = [p \in Tasks |-> 0]
    /\ slSeq = [p \in Tasks |-> 0]
    /\ slRecs = <<>>
    /\ slOut = <<>>
    /\ cwMu = 0
    /\ cwPc = [p \in Tasks |-> "idle"]
    /\ cwIn = [p \in Tasks |-> <<>>]
    /\ cwLen = [p \in Tasks |-> 0]
    /\ cwArr = [k \in 1..3 |-> LinePart(k, NoLine)]
    /\ cwOk = [p \in Tasks |-> 0]
    /\ cwLog = <<>>
    /\ orbGot = <<>>


RolesSPSC == [p \in Tasks |-> CASE p = 1 -> "putter" [] p = 2 -> "getter" [] OTHER -> "none"]
RolesSPMC ==
    [p \in Tasks |-> CASE p = 1 -> "putter" [] p \in {2, 3} -> "getter" [] OTHER -> "none"]
RolesSeq == [p \in Tasks |-> IF p = 1 THEN "seq" ELSE "none"]
\* NewAsyncWriterV2 with nw workers, and np tasks that call Write.
RolesAW ==
    {[p \in Tasks |-> IF p <= np THEN "producer"
                      ELSE IF p <= np + nw THEN "worker" ELSE "none"] :
        np \in 1..(MaxTasks - 1), nw \in 0..(MaxTasks - 1)}
AwSizes == 1..MaxAwReq

\* Everything but the TerminalWriter and its caller.
InitProgram(sizes, roles, writes, writers) ==
    /\ reqSize \in sizes
    /\ buffer = NewRingBuffer(reqSize).buffer
    /\ mask = NewRingBuffer(reqSize).mask
    /\ head = 0
    /\ tail = 0
    /\ done = FALSE
    /\ pool = [e \in Entries |-> 0]
    /\ data = [e \in Entries |-> 0]
    /\ role \in roles
    /\ pc = [p \in Tasks |-> IF role[p] = "worker" THEN "K_done" ELSE "idle"]
    /\ lh = [p \in Tasks |-> 0]
    /\ lt = [p \in Tasks |-> 0]
    /\ ent = [p \in Tasks |-> 0]
    /\ got = [p \in Tasks |-> 0]
    /\ cur = [p \in Tasks |-> 0]
    /\ drain = [p \in Tasks |-> FALSE]
    /\ mode = "fill"
    /\ nextItem = 1
    /\ putLog = <<>>
    /\ getLog = <<>>
    /\ sink = <<>>
    /\ wres = [i \in 1..MaxWritesLate |-> "none"]
    /\ late = {}
    /\ preClose = {}
    /\ b = [p \in Tasks |-> <<>>]
    /\ callB = [p \in Tasks |-> <<>>]
    /\ arr = [e \in Entries |-> <<>>]
    /\ dlen = [e \in Entries |-> 0]
    /\ slotFor = [i \in DOMAIN NewRingBuffer(reqSize).buffer |-> <<>>]
    /\ gotFor = [p \in Tasks |-> <<>>]
    /\ fwd = {}
    /\ writer \in writers
    /\ numWrites = writes
    /\ serr = [p \in Tasks |-> FALSE]
    /\ bpools = [i \in Classes |-> {}]
    /\ bufs = [x \in Buffers |-> NoBuffer]
    /\ bpHeld = {}
    /\ bpLast = [op |-> "none", size |-> 0, buf |-> 0, class |-> NoClass,
                 made |-> 0, again |-> FALSE, reused |-> FALSE, cap |-> 0]
    /\ InitCallers

\* No record has been encoded or written to a terminal.
InitTerminal(colors, recs, inputs, at) ==
    /\ tw \in [useColor : colors, buf : {<<>>}]
    /\ twOut = <<>>
    /\ twRec \in recs
    /\ twIn \in inputs
    /\ twRes = NoResult
    /\ twPc = at
    /\ twLog = <<>>

InitRun(sizes, roles, writes, writers) ==
    /\ InitProgram(sizes, roles, writes, writers)
    /\ InitTerminal({FALSE}, {NoRecord}, {<<>>}, "done")

InitWith(sizes, roles) == InitRun(sizes, roles, MaxWrites, {"ok"})

RingStep(p) ==
    \/ PutLoadHead(p) \/ PutLoadTail(p) \/ PutStore(p) \/ PutPublish(p)
    \/ GetLoadTail(p) \/ GetLoadHead(p) \/ GetCAS(p) \/ GetLoadSlot(p)
    \/ GetClearSlot(p)

\* One producer task and one consumer task on a raw ring.
Init == InitWith(ReqSizes, {RolesSPSC})
Next == \E p \in Tasks : RingStep(p) \/ RawPut(p) \/ RawGet(p)
Spec == Init /\ [][Next]_vars

\* One producer task and two consumer tasks on a raw ring.
InitSPMC == InitWith(ReqSizes, {RolesSPMC})
SpecSPMC == InitSPMC /\ [][Next]_vars

\* One task alone on a raw ring, filling it and emptying it in turn.
InitSeq == InitWith(ReqSizes, {RolesSeq})
NextSeq ==
    \E p \in Tasks : RingStep(p) \/ SeqPut(p) \/ SeqTurn(p) \/ SeqGet(p) \/ SeqNewRound(p)
SpecSeq == InitSeq /\ [][NextSeq]_vars

\* The dispatcher: producers calling Write, workers, and Close.
AwStep(p) ==
    \/ WriteStart(p) \/ WriteCopy(p) \/ WriteCheckDone(p)
    \/ SinkWrite(p) \/ ResetEntry(p) \/ PoolPut(p) \/ WorkerLoop(p)
InitAW == InitWith(AwSizes, RolesAW)
NextAW == (\E p \in Tasks : RingStep(p) \/ AwStep(p)) \/ Close
SpecAW == InitAW /\ [][NextAW]_vars

\* The dispatcher when Close is never called, every task scheduled fairly.
NextOpen == \E p \in Tasks : RingStep(p) \/ AwStep(p)
SpecOpen ==
    /\ InitAW
    /\ [][NextOpen]_vars
    /\ \A p \in Tasks : WF_vars(RingStep(p) \/ AwStep(p))

\* The dispatcher with one producer, whose caller reuses its slice, and one
\* or two workers.
RolesCopy ==
    {[p \in Tasks |-> IF p = 1 THEN "producer"
                      ELSE IF p <= 1 + nw THEN "worker" ELSE "none"] : nw \in 1..2}
InitCopy == InitWith({2}, RolesCopy)
NextCopy == \E p \in Tasks : RingStep(p) \/ AwStep(p) \/ CallerFill(p)
SpecCopy == InitCopy /\ [][NextCopy]_vars

\* Callers of the global BufferPool, one call at a time; no ring is used.
RolesNone == [p \in Tasks |-> "none"]
\* The sizes asked for: none and negative, 1, 63, the benchmark's 100, every
\* class size 2^k and 2^k + 1 (the last one exceeds the largest class).
BpSizes ==
    {-1, 0, 1, 63, 100} \cup {2 ^ k : k \in 6..MaxPow} \cup {2 ^ k + 1 : k \in 6..MaxPow}
InitBP == InitWith({2}, {RolesNone})
NextBP ==
    \/ \E size \in BpSizes : BpGet(size)
    \/ \E x \in Buffers : BpUse(x) \/ BpPut(x)
SpecBP == InitBP /\ [][NextBP]_vars

\* Callers that also put back slices of their own: a few Get sizes, and
\* stored capacities 0, every class size, and two that are no class size.
BpSizesStore == {0, ClassSize(0), ClassSize(0) + 1, ClassSize(NumClasses - 1) + 1}
StoreCaps ==
    {0, 100, ClassSize(NumClasses - 1) + 1} \cup {ClassSize(i) : i \in Classes}
NextBPStore ==
    \/ \E size \in BpSizesStore : BpGet(size)
    \/ \E x \in Buffers : BpUse(x) \/ BpPut(x) \/ (\E c \in StoreCaps : BpStore(x, c))
SpecBPStore == InitBP /\ [][NextBPStore]_vars

\* --------------------------------------------- inputs of TerminalWriter.Write

\* All prefixes of a byte sequence: the input cut short anywhere.
Prefixes(bytes) == {SubSeq(bytes, 1, n) : n \in 0..Len(bytes)}

\* Pieces of a field block: a well-formed field of several types, and
\* fields with an unknown type byte, a key length that runs past the end, a
\* declared string length that runs past the end, and an empty key.
Chunks ==
    { <<>>,
      <<1, 107, FieldTypeInt>> \o BE64(-2),
      <<1, 107, FieldTypeFloat32, 63, 128, 0, 0>>,
      <<2, 107, 108, FieldTypeString, 0, 2, 97, 34>>,
      <<1, 107, FieldTypeBool>> \o BE64(1),
      <<0, FieldTypeBytes, 0, 1, 9>>,
      <<1, 107, 9>>,
      <<255, 107, FieldTypeInt>>,
      <<1, 107, FieldTypeString, 255, 255, 97>> }

\* The pieces that follow another piece: nothing, or a well-formed field.
LaterChunks ==
    { <<>>,
      <<1, 110, FieldTypeUint>> \o BE64(258),
      <<1, 110, FieldTypeString, 0, 1, 98>> }

\* Declared lengths at offset 14 (two bytes), at offset 22, and field counts.
DeclaredL == {0, 1, 9, 24, 65535}
DeclaredM == {0, 2, 3, 255}
DeclaredCount == {0, 1, 2, 255}

\* A record-shaped input: 16 header bytes, 6 more, the byte at offset 22,
\* two message bytes, a count and two pieces of a field block.
RawRecord(magicOk, level, L, M, count, c1, c2) ==
    (IF magicOk THEN MagicBytes ELSE <<71, 79, 76, 0>>)
        \o <<Version, level>> \o LE64(1000) \o LE16(L)
        \o <<1, 2, 3, 4, 5, 6>> \o <<M>> \o <<104, 105>> \o <<count>> \o c1 \o c2

\* The inputs given to Write: record-shaped inputs with every combination
\* of declared lengths, count and pieces, some with another level or a
\* wrong magic, each cut short at every length.
RawInputs ==
    UNION { Prefixes(RawRecord(TRUE, 1, L, M, count, c1, c2)) :
              L \in DeclaredL, M \in DeclaredM, count \in DeclaredCount,
              c1 \in Chunks, c2 \in LaterChunks }
    \cup UNION { Prefixes(RawRecord(ok, level, 0, 2, 1, c1, <<>>)) :
                   ok \in BOOLEAN, level \in {0, 4, 5, 255}, c1 \in Chunks }

\* One Write of one input.
InitDecode ==
    /\ InitProgram({2}, {RolesNone}, MaxWrites, {"ok"})
    /\ InitTerminal({FALSE}, {NoRecord}, RawInputs, "write")
SpecDecode == InitDecode /\ [][TwWrite]_vars

\* ------------------------------------------------- records given to loggers

\* A message of n bytes, no two neighbours equal.
Msg(n) == [i \in 1..n |-> 97 + (i % 26)]
MsgLens == {0, 1, 3, 40, 200, 201, 255, 256}

\* Field lists: none, one negative int, a string and a bool, and one field
\* of every type (the string holds a quote, one key is empty).
FieldLists ==
    { <<>>,
      <<IntField(<<107>>, -2)>>,
      <<StringField(<<115, 116>>, <<104, 105>>), BoolField(<<98>>, TRUE)>>,
      <<IntField(<<105>>, 7), UintField(<<117>>, 65537),
        Float32Field(<<102>>, 1065353216), Float64Field(<<100>>, 1),
        StringField(<<>>, <<97, 34, 98>>), BoolField(<<98>>, FALSE),
        BytesField(<<120>>, <<0, 255>>)>> }

\* Sequence numbers and clock values; the low two bytes of a value are
\* value % 65536: here 0, 1, 5, 24, 300 and 4464.
SeqValues == {1, 2, 300}
TsValues == {0, 1, 5, 24, 65536, 65836, 70000}

Loggers == {"Logger", "Structured", "KV", "Ultimate"}
Records ==
    [logger : Loggers, level : {1, 7}, seq : SeqValues, ts : TsValues,
     msg : {Msg(n) : n \in MsgLens}, fields : FieldLists]

\* A logger encodes one record and hands it to a TerminalWriter.
InitEncode ==
    /\ InitProgram({2}, {RolesNone}, MaxWrites, {"ok"})
    /\ InitTerminal({FALSE}, Records, {<<>>}, "encode")
NextEncode == TwEncode \/ TwWrite
SpecEncode == InitEncode /\ [][NextEncode]_vars

\* Records whose fields press on the buffer a StructuredLogger formats
\* into: a value of n bytes, no two neighbours equal,
Str(n) == [i \in 1..n |-> 48 + (i % 10)]
\* n int fields and n string fields of 14 bytes with one-byte keys,
ManyInts(n) == [i \in 1..n |-> IntField(<<97 + (i % 26)>>, i)]
ManyStrings(n) == [i \in 1..n |-> StringField(<<97 + (i % 26)>>, Str(14))]
\* the lists of FieldLists, 12 short strings, 16 .. 300 ints, a string or
\* bytes value of 100 .. 600 bytes before an int, and a key of 255 .. 300
\* bytes.
FormatFieldLists ==
    FieldLists
    \cup {ManyStrings(12)}
    \cup {ManyInts(n) : n \in {16, 17, 25, 26, 255, 256, 300}}
    \cup {<<StringField(<<115>>, Str(n)), IntField(<<110>>, 1)>> :
              n \in {100, 400, 483, 484, 600}}
    \cup {<<BytesField(<<98>>, Str(n)), BoolField(<<110>>, TRUE)>> : n \in {100, 600}}
    \cup {<<IntField(Str(k), 3), IntField(<<110>>, 4)>> : k \in {255, 256, 300}}
FormatRecords ==
    [logger : {"Structured", "KV"}, level : {1}, seq : {1, 2}, ts : {5},
     msg : {Msg(n) : n \in {0, 40, 255, 300}}, fields : FormatFieldLists]

\* A StructuredLogger formats one record (logFields or logKV).
InitFormat ==
    /\ InitProgram({2}, {RolesNone}, MaxWrites, {"ok"})
    /\ InitTerminal({FALSE}, FormatRecords, {<<>>}, "encode")
NextFormat == TwEncode
SpecFormat == InitFormat /\ [][NextFormat]_vars

\* Records for Logger.log with messages around the stack-buffer limit (240
\* bytes) and around the largest length two bytes hold.
BasicMsgLens == {0, 1, 240, 241, 65535, 65536, 65537, 65541, 70000}
BasicRecords ==
    [logger : {"Logger"}, level : 0..4, seq : {0}, ts : {0, 1000},
     msg : {Msg(n) : n \in BasicMsgLens}, fields : {<<>>}]

\* A Logger formats one record.
InitBasic ==
    /\ InitProgram({2}, {RolesNone}, MaxWrites, {"ok"})
    /\ InitTerminal({FALSE}, BasicRecords, {<<>>}, "encode")
SpecBasic == InitBasic /\ [][NextFormat]_vars

\* Tasks log through one StructuredLogger or UltimateLogger at levels Debug
\* and Info.
NextShared ==
    \/ \E kind \in {"Structured", "Ultimate"} : SlNew(kind)
    \/ \E p \in Tasks, level \in {LevelDebug, LevelInfo} : SlCall(p, level)
    \/ \E p \in Tasks : SlFormat(p)
    \/ \E p \in Tasks : SlWrite(p)
SpecShared == InitWith({2}, {RolesNone}) /\ [][NextShared]_vars

\* A stream of records through one TerminalWriter: two Basic and two
\* Structured records, and malformed ones (too short, wrong magic, a length
\* of 0 at offset 14 with fewer than 23 bytes, and with a message length at
\* offset 22 that runs past the end).
StreamInputs ==
    { formatMessage(1, 1000, Msg(3)),
      formatMessage(3, 2000, Msg(40)),
      formatStructuredMessage(512, 2, 1, 65536, Msg(1), <<IntField(<<107>>, 5)>>),
      formatStructuredMessage(512, 9, 2, 65536, <<>>, <<>>),
      SubSeq(formatMessage(1, 1000, Msg(3)), 1, 15),
      <<71, 79, 76, 0>> \o SubSeq(formatMessage(1, 1000, Msg(3)), 5, 19),
      SubSeq(formatStructuredMessage(512, 2, 1, 65536, Msg(1), <<>>), 1, 20),
      SubSeq(formatStructuredMessage(512, 2, 1, 65536, Msg(3), <<>>), 1, 24) }

InitStream ==
    /\ InitProgram({2}, {RolesNone}, MaxWrites, {"ok"})
    /\ InitTerminal(BOOLEAN, {NoRecord}, {<<>>}, "done")
NextStream == (\E bytes \in StreamInputs : TwSubmit(bytes)) \/ TwWrite
SpecStream == InitStream /\ [][NextStream]_vars

\* Tasks write through one TerminalWriter: a Basic record, two Structured
\* records (one with a field) and a record that is too short.
CwInputs ==
    { formatMessage(1, 1000, Msg(3)),
      formatStructuredMessage(512, 2, 1, 65536, Msg(1), <<IntField(<<107>>, 5)>>),
      formatStructuredMessage(512, 9, 2, 65536, <<>>, <<>>),
      SubSeq(formatMessage(1, 1000, Msg(3)), 1, 15) }
CwStep(p) ==
    \/ \E bytes \in CwInputs : CwCall(p, bytes)
    \/ CwLock(p)
    \/ CwReset(p)
    \/ CwRender(p)
    \/ CwSave(p)
    \/ CwOut(p)
    \/ CwUnlock(p)
NextTerm == \E p \in Tasks : CwStep(p)
SpecTerm == InitWith({2}, {RolesNone}) /\ [][NextTerm]_vars

\* The dispatcher with one producer and one or two workers, Close never
\* called, over rings of 2 and 4 slots.
InitOrder == InitRun({2, 4}, RolesCopy, MaxWrites, {"ok"})
SpecOrder == InitOrder /\ [][NextOpen]_vars

\* One task calls Put and Get on an OldRingBuffer of 2 or 4 slots
\* (NewCompatRingBuffer accepts powers of two only).
RolesCompat == [p \in Tasks |-> IF p = 1 THEN "compat" ELSE "none"]
NextCompat == \E p \in Tasks : RingStep(p) \/ OrbPut(p) \/ OrbGet(p) \/ OrbTake(p)
SpecCompat == InitWith({2, 4}, {RolesCompat}) /\ [][NextCompat]_vars

\* The dispatcher over a sink whose Write may return an error: one producer,
\* one worker, and Close.
RolesErr ==
    [p \in Tasks |-> CASE p = 1 -> "producer" [] p = 2 -> "worker" [] OTHER -> "none"]
InitErr == InitRun({2, 4}, {RolesErr}, MaxWrites, {"failing"})
SpecErr == InitErr /\ [][NextAW]_vars

\* The dispatcher with one producer, whose caller fills its slice before a
\* call, one worker, and Close.
NextPooled == (\E p \in Tasks : RingStep(p) \/ AwStep(p) \/ CallerFill(p)) \/ Close
SpecPooled == InitWith({2}, {RolesErr}) /\ [][NextPooled]_vars

\* The dispatcher with one producer, one worker and Close, every task
\* scheduled fairly (the Go scheduler runs every runnable goroutine).
InitShut == InitWith({2}, {RolesErr})
SpecShut ==
    /\ InitShut
    /\ [][NextAW]_vars
    /\ \A p \in Tasks : WF_vars(RingStep(p) \/ AwStep(p))

\* The dispatcher with one producer that makes one Write more, and two
\* workers, under a schedule that leaves runs out (each of its runs is a
\* run of the program): a worker is not given the processor for another
\* pass of its loop once the sink has received something, and Close is
\* called while or after the last Write but one.
RolesLate == [p \in Tasks |-> IF p = 1 THEN "producer" ELSE "worker"]
InitLate == InitRun({2}, {RolesLate}, MaxWritesLate, {"ok"})
LateStep(p) ==
    \/ WriteStart(p) \/ WriteCopy(p) \/ WriteCheckDone(p)
    \/ SinkWrite(p) \/ ResetEntry(p) \/ PoolPut(p)
    \/ (sink = <<>> /\ WorkerLoop(p))
NextLate ==
    \/ \E p \in Tasks : RingStep(p) \/ LateStep(p)
    \/ (nextItem >= MaxWritesLate /\ Close)
SpecLate == InitLate /\ [][NextLate]_vars

\* ------------------------------------------------------------- properties

IsPrefix(s, t) == Len(s) <= Len(t) /\ \A i \in 1..Len(s) : s[i] = t[i]
Range(s) == {s[i] : i \in 1..Len(s)}
Count(s, x) == Cardinality({i \in 1..Len(s) : s[i] = x})

\* Gets that have claimed a position (their compare-and-swap succeeded).
Claimed == Len(getLog) + Cardinality({p \in Tasks : pc[p] \in {"G_load", "G_clear"}})
\* Items admitted by Put and not yet claimed by a Get.
Occupancy == Len(putLog) - Claimed

NumProducers == Cardinality({p \in Tasks : role[p] = "producer"})
NumWorkers == Cardinality({p \in Tasks : role[p] = "worker"})
\* A payload is still on its way to the sink: an entry carrying it is in a
\* slot or in the hands of a consumer.
InFlight(w) ==
    \E e \in Entries :
        /\ data[e] = w
        /\ \/ \E i \in Slots : buffer[i] = e
           \/ \E p \in Tasks : got[p] = e

\* C1: while Close has not been called, every Write that returned
\* (len(b), nil) has its payload written to the sink exactly once: never
\* twice, and until it is written an entry carrying it is in the ring or
\* with a consumer, so it is neither lost nor overwritten.
C1_AdmittedWrittenOnce ==
    ~done =>
        \A w \in 1..MaxWrites :
            wres[w] = "ok" =>
                /\ Count(sink, w) <= 1
                /\ Count(sink, w) = 0 => InFlight(w)

\* C2: with one producer and several consumers on a raw ring, every item Put
\* returned true for is returned by exactly one Get: it is never returned
\* twice, and until it is returned it stays in its slot, so it is never lost.
C2_EachItemGotOnce ==
    \A x \in Range(putLog) :
        /\ Count(getLog, x) <= 1
        /\ Count(getLog, x) = 0 => \E i \in Slots : buffer[i] = x

\* C3: a Write that begins after Close has returned and every worker has
\* exited returns (0, io.ErrClosedPipe) and does not put its entry in the
\* ring (stated for the dispatchers that were started with a worker).
C3_LateWriteIsRejected ==
    NumWorkers >= 1 =>
        \A w \in late :
            /\ wres[w] # "ok"
            /\ \A i \in 1..Len(putLog) : putLog[i] # w

\* C4: with at least one worker and a single producer, every entry admitted
\* to the ring before Close has been written to the sink once the workers
\* have left their drain loops (read at the latest moment the claim allows:
\* the producer is not inside a Write either).
C4_AdmittedBeforeCloseAreDrained ==
    (/\ NumWorkers >= 1
     /\ NumProducers = 1
     /\ ShutdownComplete
     /\ \A p \in Tasks : role[p] = "producer" => pc[p] = "idle")
        => \A w \in preClose : Count(sink, w) >= 1

\* C5: for every ring size >= 1 and every number of workers, when Close is
\* never called, every Write call returns under fair scheduling.
C5_EveryWriteReturns ==
    \A p \in Tasks :
        (role[p] = "producer" /\ pc[p] # "idle") ~> (pc[p] = "idle")

\* C6: a single task that performs N successful Puts and then N Gets, from
\* any positions earlier rounds left, receives the N items in Put order (a
\* Get that came back empty is logged as 0 and breaks the order).
C6_FifoAfterFill ==
    /\ mode = "drain" => IsPrefix(getLog, putLog)
    /\ Len(getLog) <= Len(putLog)

\* C6 witness: a round of three items that wrapped past the end of a
\* four-slot array has been received in full.
C6_Witness ==
    /\ mode = "drain"
    /\ Cap = 4
    /\ Len(putLog) = Cap - 1
    /\ getLog = putLog
    /\ 0 < head /\ head < Len(putLog)

\* C7: with one producer and one consumer interleaved at every atomic step,
\* what the Gets have returned is always a prefix of what Put has admitted.
C7_GetsArePrefixOfPuts == IsPrefix(getLog, putLog)

\* C7 witness: the consumer has received more items than the array has
\* slots (head and tail have wrapped) while the producer is inside a Put.
C7_Witness ==
    /\ Cap >= 2
    /\ Len(getLog) > Cap
    /\ pc[1] = "P_store"
    /\ pc[2] = "G_load"

\* C8: in the dispatcher the entries admitted and not yet returned by a Get
\* number between 0 and capacity-1, at most capacity-1 slots are non-nil,
\* and no store into a slot overwrites an entry that is still there.
C8_OccupancyAndSlots ==
    /\ [](/\ Len(putLog) - Len(getLog) \in 0..(Cap - 1)
          /\ Cardinality({i \in Slots : buffer[i] # 0}) <= Cap - 1)
    /\ [][\A i \in Slots :
             (buffer'[i] # buffer[i] /\ buffer'[i] # 0) => buffer[i] = 0]_vars

\* C9: with one producer and one consumer, a Put that loads tail returns
\* false exactly when the items admitted and not yet claimed number
\* capacity-1; otherwise it stores the item in its slot and returns true.
C9_PutFalseIffFull ==
    [][\A p \in Tasks :
          /\ (pc[p] = "P_tail" /\ pc'[p] # "P_tail") =>
                /\ (pc'[p] = "idle") <=> (Occupancy = Cap - 1)
                /\ pc'[p] \in {"idle", "P_store"}
          /\ (pc[p] = "P_store" /\ pc'[p] # "P_store") =>
                /\ pc'[p] = "P_pub"
                /\ \E i \in Slots : buffer'[i] = ent[p]
          /\ (pc[p] = "P_pub" /\ pc'[p] # "P_pub") =>
                /\ putLog' = Append(putLog, ent[p])
      ]_vars

\* The same on a ring that has at least one slot.
PutFalseIffFullOnSlots ==
    [][\A p \in Tasks :
          Cap >= 1 =>
          /\ (pc[p] = "P_tail" /\ pc'[p] # "P_tail") =>
                /\ (pc'[p] = "idle") <=> (Occupancy = Cap - 1)
                /\ pc'[p] \in {"idle", "P_store"}
          /\ (pc[p] = "P_store" /\ pc'[p] # "P_store") =>
                /\ pc'[p] = "P_pub"
                /\ \E i \in Slots : buffer'[i] = ent[p]
          /\ (pc[p] = "P_pub" /\ pc'[p] # "P_pub") =>
                /\ putLog' = Append(putLog, ent[p])
      ]_vars

\* The least power of two that is >= r.
LeastPow2AtLeast(r) ==
    LET pows == {2 ^ k : k \in 0..MaxReq}
    IN  CHOOSE c \in pows : c >= r /\ \A d \in pows : d >= r => c <= d

\* C10: NewRingBuffer allocates the least power of two >= the requested
\* size, sets mask to that minus one, and the new ring can admit an item.
C10_CapacityIsNextPow2 ==
    /\ Cap = LeastPow2AtLeast(reqSize)
    /\ mask = Cap - 1
    /\ 0 \in Slots /\ ~PutFull(BitAnd(0 + 1, mask), 0)

\* C11: with one producer and several consumers, a Get whose compare-and-swap
\* on tail succeeded finds its claimed slot non-nil, so its inner loop never
\* has to yield and wait for another task.
C11_ClaimedSlotIsNonNil ==
    \A p \in Tasks : pc[p] = "G_load" => buffer[GetSlot(lt[p])] # 0

\* The holders of a LogEntry: the pool (once per time it was put there), the
\* slots that point to it, the producers that took it from the pool and
\* have not yet stored it in a slot, and the consumers that loaded it and
\* have cleared its slot (during Put's and Get's own steps the slot counts).
Holders(e) ==
    pool[e]
    + Cardinality({i \in Slots : buffer[i] = e})
    + Cardinality({p \in Tasks : IsDispatcher(p) /\ ent[p] = e /\ pc[p] # "P_pub"})
    + Cardinality({p \in Tasks : IsDispatcher(p) /\ got[p] = e /\ pc[p] # "G_clear"})

\* C12: in every reachable state of the dispatcher each LogEntry has at most
\* one holder: it is not in the pool twice, not in two slots, not referenced
\* by two tasks, and not in two of these places at once.
C12_EntryHasOneHolder == \A e \in Entries : Holders(e) <= 1

\* C13: the bytes a consumer forwards to the sink for a Write call are the
\* bytes the caller's slice held when Write was called, whatever the caller
\* writes into the slice afterwards and whatever the pooled entry carried
\* before.
C13_ForwardedBytesAreCallersBytes == \A r \in fwd : r[1] = r[2]

\* The same when the dispatcher was started with a single worker.
ForwardedBytesAreCallersBytesOneWorker ==
    NumWorkers = 1 => \A r \in fwd : r[1] = r[2]

\* A Write whose Put found the ring full while the dispatcher is open goes
\* on to Get: it returns nothing, keeps its entry and writes nothing yet.
HelpsWhenFullAndOpen(p) ==
    (pc[p] = "W_done" /\ ~done /\ pc'[p] # "W_done") =>
        /\ pc'[p] = "G_tail"
        /\ ent'[p] = ent[p] /\ cur'[p] = cur[p]
        /\ pool' = pool /\ wres' = wres /\ sink' = sink

\* A Write that dequeued an entry forwards it to the sink, resets it,
\* returns it to the pool and retries the Put of its own entry.
ForwardsAndRecycles(p) ==
    /\ (pc[p] = "G_clear" /\ pc'[p] # "G_clear") =>
          pc'[p] = "C_sink" /\ got'[p] = got[p]
    /\ (pc[p] = "C_sink" /\ pc'[p] # "C_sink") =>
          pc'[p] = "C_reset" /\ sink' = Append(sink, data[got[p]])
    /\ (pc[p] = "C_reset" /\ pc'[p] # "C_reset") =>
          pc'[p] = "C_pool" /\ data'[got[p]] = 0
    /\ (pc[p] = "C_pool" /\ pc'[p] # "C_pool") =>
          /\ pc'[p] = "P_head"
          /\ pool'[got[p]] = pool[got[p]] + 1
          /\ ent'[p] = ent[p]

\* A Write returns either from the Put that stored and published its own
\* entry, with (len(b), nil), or with the error after it saw the closed flag.
ReturnsOnlyWhenAdmitted(p) ==
    (pc[p] # "idle" /\ pc'[p] = "idle") =>
        \/ /\ pc[p] = "P_pub"
           /\ wres'[cur[p]] = "ok"
           /\ putLog' = Append(putLog, cur[p])
        \/ /\ pc[p] = "W_done" /\ done
           /\ wres'[cur[p]] = "closed"

\* C14 as stated: a Write that finds the ring full and the dispatcher open
\* returns no error and keeps its payload; its Get dequeues an entry, which
\* it forwards and recycles; it then retries Put, and it returns
\* (len(b), nil) only once its own entry has been admitted (read on the
\* rings of two or more slots, which can hold an entry).
C14_HelpingGetAlwaysDequeues ==
    [][\A p \in Tasks :
          (role[p] = "producer" /\ Cap >= 2) =>
              /\ HelpsWhenFullAndOpen(p)
              /\ (pc[p] = "G_head" /\ pc'[p] # "G_head") => pc'[p] = "G_cas"
              /\ ForwardsAndRecycles(p)
              /\ ReturnsOnlyWhenAdmitted(p)
      ]_vars

\* C14 amended: the same, except that the Get may report the ring empty (a
\* worker emptied it in between); the Write then forwards nothing and
\* retries its Put at once.
C14_HelpsThenRetriesPut ==
    [][\A p \in Tasks :
          role[p] = "producer" =>
              /\ HelpsWhenFullAndOpen(p)
              /\ (pc[p] = "G_head" /\ pc'[p] # "G_head") =>
                    pc'[p] \in {"G_cas", "P_head"}
              /\ ForwardsAndRecycles(p)
              /\ ReturnsOnlyWhenAdmitted(p)
      ]_vars

\* C14 witness: a dispatcher without workers, not closed; the second Write
\* found the ring full, forwarded the first payload itself and was admitted.
C14_Witness ==
    /\ NumWorkers = 0
    /\ ~done
    /\ sink = <<1>>
    /\ wres[2] = "ok"

\* C15: a Write whose Put failed and that saw the closed flag returns
\* (0, io.ErrClosedPipe) and puts its own entry back in the pool, without a
\* Get or a sink write in that iteration; and the payload of a Write that
\* returned this error is never written to the sink.
C15_ClosedWriteIsRejected ==
    /\ [](\A w \in DOMAIN wres : wres[w] = "closed" => Count(sink, w) = 0)
    /\ [][\A p \in Tasks :
             (role[p] = "producer" /\ pc[p] = "W_done" /\ done
                /\ pc'[p] # "W_done") =>
                 /\ pc'[p] = "idle"
                 /\ wres'[cur[p]] = "closed"
                 /\ pool'[ent[p]] = pool[ent[p]] + 1
                 /\ sink' = sink /\ tail' = tail /\ buffer' = buffer
         ]_vars

\* The steps of C15 alone: what the rejected Write itself does.
ClosedWriteReturnsItsEntry ==
    [][\A p \in Tasks :
          (role[p] = "producer" /\ pc[p] = "W_done" /\ done
             /\ pc'[p] # "W_done") =>
              /\ pc'[p] = "idle"
              /\ wres'[cur[p]] = "closed"
              /\ pool'[ent[p]] = pool[ent[p]] + 1
              /\ sink' = sink /\ tail' = tail /\ buffer' = buffer
      ]_vars

\* C16: whatever aw.writer.Write returns, a worker goes on as if it had
\* succeeded: it resets the entry, returns it to the pool and loops to the
\* next Get; the error reaches no producer (no Write result changes), and a
\* worker leaves only from its drain loop, when a Get found the ring empty.
C16_SinkErrorChangesNothing ==
    [][\A p \in Tasks :
          role[p] = "worker" =>
              /\ (pc[p] = "C_sink" /\ pc'[p] # "C_sink") =>
                    /\ pc'[p] = "C_reset"
                    /\ got'[p] = got[p]
                    /\ wres' = wres /\ done' = done
              /\ (pc[p] = "C_reset" /\ pc'[p] # "C_reset") =>
                    pc'[p] = "C_pool" /\ data'[got[p]] = 0
              /\ (pc[p] = "C_pool" /\ pc'[p] # "C_pool") =>
                    /\ pc'[p] = (IF drain[p] THEN "G_tail" ELSE "K_done")
                    /\ pool'[got[p]] = pool[got[p]] + 1
              /\ (pc[p] # "exited" /\ pc'[p] = "exited") =>
                    pc[p] = "G_head" /\ drain[p] /\ done /\ lt[p] = head
      ]_vars

\* C16 witness: a worker whose last sink write returned an error has
\* dequeued a later entry and is about to forward it.
C16_Witness ==
    \E p \in Tasks :
        /\ role[p] = "worker"
        /\ serr[p]
        /\ pc[p] = "C_sink"
        /\ Len(sink) >= 1

\* C17: once Close has been called every worker eventually exits (the
\* Writes of a run are finitely many and the sink's writes return); a worker
\* exits only from a Get that reported the ring empty, holding no entry, so
\* an entry it held when Close was called has been forwarded and returned
\* to the pool before.
C17_WorkersExitAfterClose ==
    /\ done ~> ShutdownComplete
    /\ [][\A p \in Tasks :
             (role[p] = "worker" /\ pc[p] # "exited" /\ pc'[p] = "exited") =>
                 /\ pc[p] = "G_head" /\ lt[p] = head
                 /\ got[p] = 0
         ]_vars

\* ------------------------------------------------------ BufferPool claims

\* A class boundary: the buffer size 2^(i+6) of some class i in 0..19.
IsClassBoundary(n) == \E i \in Classes : n = ClassSize(i)

\* The smallest class whose buffer size is >= n, i.e.
\* max(0, ceil(log2(n)) - 6); defined for 1 <= n <= 2^25.
SmallestClass(n) ==
    CHOOSE i \in Classes :
        /\ ClassSize(i) >= n
        /\ \A j \in Classes : j < i => ClassSize(j) < n

\* C18: whatever Gets and Puts came before, the buffer BufferPool.Get(size)
\* has just returned has length 0 and a capacity of at least size, and of
\* at least 64 when size <= 0.
C18_GetReturnsEmptyBufferOfCapacity ==
    bpLast.op = "Get" =>
        /\ bufs[bpLast.buf].len = 0
        /\ bufs[bpLast.buf].cap >= (IF bpLast.size <= 0 THEN 64 ELSE bpLast.size)

\* C18 witness: a Get of 8193 bytes right after the Put of a buffer of that
\* size has returned while the caller holds a second buffer.
C18_Witness ==
    /\ bpLast.op = "Get"
    /\ bpLast.size = 8193
    /\ bpLast.again
    /\ bpHeld = Buffers

\* C19: when Get(size) directly follows the Put of a buffer that had been
\* obtained by Get(size), it returns that same buffer without allocating
\* exactly when size is a class boundary, and allocates otherwise.
C19_PutThenGetReusesExactlyOnClassBoundary ==
    (bpLast.op = "Get" /\ bpLast.again) =>
        IF IsClassBoundary(bpLast.size)
        THEN bpLast.reused /\ bpLast.made = 0
        ELSE ~bpLast.reused /\ bpLast.made >= 1

\* The half of C19 the code keeps: off a class boundary the second Get
\* allocates.
PutThenGetAllocatesOffBoundary ==
    (bpLast.op = "Get" /\ bpLast.again /\ ~IsClassBoundary(bpLast.size)) =>
        ~bpLast.reused /\ bpLast.made >= 1

\* C20: for a size from 1 up to the largest class size, Get takes its
\* buffer from the smallest class whose buffer size is >= size; so 65, 1024
\* and 8192 use classes 1, 4 and 7.
C20_GetUsesSmallestFittingClass ==
    (bpLast.op = "Get" /\ bpLast.size >= 1
        /\ bpLast.size <= ClassSize(NumClasses - 1)) =>
        bpLast.class = SmallestClass(bpLast.size)

\* The sizes for which C20's class is the one Get uses: those of class 0.
GetUsesClassZero ==
    (bpLast.op = "Get" /\ bpLast.size <= ClassSize(NumClasses - 1)) =>
        bpLast.class = 0

\* C21: every buffer in the free list of class i has length 0 and capacity
\* 2^(i+6), and a Put, whatever slice the caller left in the buffer, has
\* added the buffer to a free list exactly when its capacity is one of the
\* 20 class sizes (to the list of that class), and dropped it otherwise.
C21_PutPoolsExactlyClassSizedBuffers ==
    /\ \A i \in Classes : \A x \in bpools[i] :
           bufs[x].len = 0 /\ bufs[x].cap = ClassSize(i)
    /\ bpLast.op = "Put" =>
           IF IsClassBoundary(bpLast.cap)
           THEN \E i \in Classes :
                    ClassSize(i) = bpLast.cap /\ bpLast.buf \in bpools[i]
           ELSE \A i \in Classes : bpLast.buf \notin bpools[i]

\* The part of C21 the code keeps: no free list ever holds a buffer of a
\* wrong capacity or a non-zero length, because no free list holds anything.
PoolsStayEmpty == \A i \in Classes : bpools[i] = {}

\* The largest class size, 2^25.
LargestClassSize == ClassSize(NumClasses - 1)

C23_WriteReadsOnlyInsideInput ==
    twPc = "done" =>
        /\ \A i \in twRes.reads : 0 <= i /\ i < Len(twIn)
        /\ IF twRes.err # "none"
           THEN twRes.n = 0 /\ twOut = <<>>
           ELSE twRes.n = Len(twIn) /\ Len(twOut) = 1

\* C23 witness: Write has rendered a line in which a field's value is the
\* placeholder, from an input that stops inside that value.
C23_Witness ==
    /\ twPc = "done"
    /\ twRes.err = "none"
    /\ Len(twOut) = 1
    /\ \E k \in DOMAIN twOut[1].items : twOut[1].items[k] = Placeholder
    /\ Len(twIn) > 30

\* The 16-bit length at offset 14 of an input of at least 16 bytes.
LengthAt14(bytes) == bytes[15] + 256 * bytes[16]

\* C24: for an input of at least 16 bytes with the right magic, Write takes
\* L from offset 14; if L > 0 and len(b) >= 16 + L it decodes Basic, with
\* the timestamp of offset 6 and the L bytes at offset 16 as message;
\* otherwise, if len(b) >= 23 and with M the byte at offset 22
\* len(b) >= 23 + M, it decodes Structured, with the timestamp of offset 14
\* and the M bytes at offset 23; otherwise it returns an error, writes
\* nothing, and reads offset 22 only if len(b) >= 23.
C24_LayoutDecidedBasicFirst ==
    (twPc = "done" /\ Len(twIn) >= 16 /\ SubSeq(twIn, 1, 4) = MagicBytes) =>
        IF LengthAt14(twIn) > 0 /\ Len(twIn) >= 16 + LengthAt14(twIn)
        THEN /\ twRes.layout = "Basic"
             /\ twRes.err = "none"
             /\ twOut[1].ts = [k \in 1..8 |-> twIn[15 - k]]
             /\ twOut[1].msg = SubSeq(twIn, 17, 16 + LengthAt14(twIn))
        ELSE IF Len(twIn) >= 23 /\ Len(twIn) >= 23 + twIn[23]
        THEN /\ twRes.layout = "Structured"
             /\ twRes.err = "none"
             /\ twOut[1].ts = [k \in 1..8 |-> twIn[23 - k]]
             /\ twOut[1].msg = SubSeq(twIn, 24, 23 + twIn[23])
        ELSE /\ twRes.err # "none"
             /\ twRes.n = 0
             /\ twOut = <<>>
             /\ 22 \in twRes.reads <=> Len(twIn) >= 23

\* C24 witness: an input whose length at offset 14 is positive but too
\* large for it has been decoded as Structured.
C24_Witness ==
    /\ twPc = "done"
    /\ twRes.layout = "Structured"
    /\ Len(twIn) >= 16
    /\ LengthAt14(twIn) > 0
    /\ Len(twOut) = 1

\* The loggers that emit the Structured layout through writeBinaryHeader.
HeaderLoggers == {"Structured", "KV"}

\* C25 as stated: a record with the header of writeBinaryHeader is decoded
\* as Basic exactly when the low two bytes of its sequence number form a
\* value L with 0 < L <= len(b) - 16, and as Structured otherwise.
C25_SequenceBytesDecideLayout ==
    (twPc = "done" /\ twRec.logger \in HeaderLoggers) =>
        IF 0 < twRec.seq % 65536 /\ twRec.seq % 65536 <= Len(twIn) - 16
        THEN twRes.layout = "Basic"
        ELSE twRes.layout = "Structured"

\* C25 amended: a record with the header of writeBinaryHeader is decoded
\* as Basic exactly when the low two bytes of its timestamp form a value L
\* with 0 < L <= len(b) - 16, and as Structured otherwise, whatever its
\* sequence number is.
C25_TimestampBytesDecideLayout ==
    (twPc = "done" /\ twRec.logger \in HeaderLoggers) =>
        IF 0 < twRec.ts % 65536 /\ twRec.ts % 65536 <= Len(twIn) - 16
        THEN twRes.layout = "Basic"
        ELSE twRes.layout = "Structured"

\* C25 witness: a Structured-layout record with fields has been decoded as
\* Basic.
C25_Witness ==
    /\ twPc = "done"
    /\ twRec.logger = "Structured"
    /\ twRec.fields # <<>>
    /\ twRes.layout = "Basic"
    /\ twRes.err = "none"

\* The bytes a field's value is rendered from when it is decoded unchanged:
\* the number most significant byte first, the float's bits, 0 or 1 for a
\* bool, the string, the bytes.
ExpectedData(f) ==
    IF f.Type = FieldTypeBool THEN <<f.num>>
    ELSE IF f.Type = FieldTypeFloat32 THEN BE32(f.num)
    ELSE IF f.Type \in {FieldTypeString, FieldTypeBytes} THEN f.str
    ELSE BE64(f.num)

\* The key and value of every field in order, separated by spaces.
RECURSIVE ExpectedItems(_)
ExpectedItems(fields) ==
    IF fields = <<>> THEN <<>>
    ELSE <<KeyTok(Head(fields).Key), ValueTok(Head(fields).Type, ExpectedData(Head(fields)))>>
         \o (IF Tail(fields) = <<>> THEN <<>> ELSE <<Space>>)
         \o ExpectedItems(Tail(fields))

\* Write has decoded the record of twRec as the layout names it: level,
\* timestamp, message bytes and fields are the record's.
DecodedAs(layout, fields) ==
    /\ twRes.err = "none"
    /\ twRes.n = Len(twIn)
    /\ twRes.layout = layout
    /\ Len(twOut) = 1
    /\ twOut[1].level = twRec.level
    /\ twOut[1].ts = BE64(twRec.ts)
    /\ twOut[1].msg = twRec.msg
    /\ twOut[1].items = ExpectedItems(fields)

\* C26: a record of level 0..4 with a message of at most 255 bytes that
\* formatStructuredMessage encoded is decoded by Write as Structured with
\* the same level, message and fields, whatever its timestamp and sequence
\* number are.
C26_StructuredRoundTrip ==
    (twPc = "done" /\ twRec.logger = "Structured" /\ twRec.level < 5
        /\ Len(twRec.msg) <= 255) =>
        DecodedAs("Structured", twRec.fields)

\* What holds of C26: the round trip succeeds when the low two bytes of the
\* timestamp are no plausible Basic length.
StructuredRoundTripUnlessPlausibleLength ==
    (twPc = "done" /\ twRec.logger = "Structured" /\ twRec.level < 5
        /\ Len(twRec.msg) <= 255
        /\ ~(0 < twRec.ts % 65536 /\ twRec.ts % 65536 <= Len(twIn) - 16)) =>
        DecodedAs("Structured", twRec.fields)

\* C27: a record of level 0..4 with a message of 0..255 bytes that
\* Logger.formatMessage encoded is accepted by Write and decoded as Basic
\* with the same level, timestamp and message, and no fields.
C27_BasicRoundTrip ==
    (twPc = "done" /\ twRec.logger = "Logger" /\ twRec.level < 5
        /\ Len(twRec.msg) <= 255) =>
        DecodedAs("Basic", <<>>)

\* What holds of C27: the round trip of every non-empty message.
BasicRoundTripOfNonEmptyMessage ==
    (twPc = "done" /\ twRec.logger = "Logger" /\ twRec.level < 5
        /\ Len(twRec.msg) <= 255 /\ twRec.msg # <<>>) =>
        DecodedAs("Basic", <<>>)

\* The number of values, placeholders included, in a rendered field block.
RECURSIVE NumValues(_)
NumValues(items) ==
    IF items = <<>> THEN 0
    ELSE (IF Head(items).kind \in {"value", "?"} THEN 1 ELSE 0) + NumValues(Tail(items))

\* C28: Write never fails because of the field block, and every field the
\* loop begins is rendered, with its value or with the placeholder '?': the
\* loop ends only after the declared number of fields or with the cursor at
\* or past the end of the input, and a field that runs past the end leaves
\* a placeholder as the last thing rendered.
C28_CorruptFieldGivesPlaceholder ==
    (twPc = "done" /\ twRes.err = "none") =>
        /\ NumValues(twOut[1].items) = twRes.begun
        /\ twRes.begun = twRes.count \/ twRes.pos >= Len(twIn)
        /\ twRes.pos > Len(twIn) =>
               twOut[1].items[Len(twOut[1].items)] = Placeholder

\* What holds of C28: a value that runs past the end of the input gives the
\* placeholder and moves the cursor by its declared length, past the end.
ValueCutShortGivesPlaceholder ==
    (twPc = "done" /\ twRes.err = "none" /\ twRes.pos > Len(twIn)) =>
        /\ NumValues(twOut[1].items) = twRes.begun
        /\ twOut[1].items[Len(twOut[1].items)] = Placeholder

\* An input for which Write must fail: shorter than 16 bytes, wrong magic,
\* or neither layout test passes.
MustFail(bytes) ==
    \/ Len(bytes) < 16
    \/ SubSeq(bytes, 1, 4) # MagicBytes
    \/ /\ ~(LengthAt14(bytes) > 0 /\ Len(bytes) >= 16 + LengthAt14(bytes))
       /\ ~(Len(bytes) >= 23 /\ Len(bytes) >= 23 + bytes[23])

\* The lines a writer renders for the well-formed records of a stream, each
\* as Write renders it when nothing else is submitted.
RECURSIVE LinesOfWellFormed(_, _)
LinesOfWellFormed(log, useColor) ==
    IF log = <<>> THEN <<>>
    ELSE (IF MustFail(Head(log)) THEN <<>>
          ELSE <<TwDecode(Head(log), useColor).line>>)
         \o LinesOfWellFormed(Tail(log), useColor)

StructuredLoggers == {"Structured", "KV", "Ultimate"}

\* The record an encoder produced carries the message cut to limit bytes:
\* the length byte at offset 22 and that many leading bytes of the message
\* after it.
MessageCutTo(limit) ==
    /\ Len(twIn) >= 23 + Min(Len(twRec.msg), limit)
    /\ twIn[23] = Min(Len(twRec.msg), limit)
    /\ SubSeq(twIn, 24, 23 + Min(Len(twRec.msg), limit))
           = SubSeq(twRec.msg, 1, Min(Len(twRec.msg), limit))

\* C30: every encoder of the Structured layout writes min(len(msg), 255) as
\* message length followed by that many leading bytes of the message.
C30_MessageTruncatedTo255 ==
    (twPc # "encode" /\ twRec.logger \in StructuredLoggers) => MessageCutTo(255)

\* What holds of C30: formatStructuredMessage and logKV cut the message to
\* 255 bytes, UltimateLogger cuts it to 200.
MessageTruncatedPerLogger ==
    (twPc # "encode" /\ twRec.logger \in StructuredLoggers) =>
        MessageCutTo(IF twRec.logger = "Ultimate" THEN UltimateMsgCap ELSE 255)

\* ------------------------------------------------- records in full

\* A field written in full: key-length byte, key, type byte and value (8
\* bytes most significant first for Int, Uint, Bool and Float64, 4 for
\* Float32, a 2-byte length and that many bytes for String and Bytes).
WholeValue(f) ==
    IF f.Type = FieldTypeFloat32 THEN BE32(f.num)
    ELSE IF f.Type \in {FieldTypeString, FieldTypeBytes}
    THEN BE16(Min(Len(f.str), 65535)) \o SubSeq(f.str, 1, Min(Len(f.str), 65535))
    ELSE BE64(f.num)
WholeField(f) ==
    <<Min(Len(f.Key), 255)>> \o SubSeq(f.Key, 1, Min(Len(f.Key), 255))
        \o <<f.Type>> \o WholeValue(f)
RECURSIVE WholeFields(_, _, _)
WholeFields(fields, lo, hi) ==
    IF lo > hi THEN <<>>
    ELSE IF lo = hi THEN WholeField(fields[lo])
    ELSE WholeFields(fields, lo, (lo + hi) \div 2)
         \o WholeFields(fields, (lo + hi) \div 2 + 1, hi)

\* Header, message-length byte, message, field-count byte and the first
\* min(n, 255) fields in call order, each in full.
WholeRecord(r) ==
    writeBinaryHeader(r.level, r.seq, r.ts) \o MsgPart(r.msg, 255)
        \o <<Min(Len(r.fields), 255)>>
        \o WholeFields(r.fields, 1, Min(Len(r.fields), 255))

\* C31: the bytes formatStructuredMessage produces are the 22-byte header,
\* the message-length byte, the message, the field-count byte and then every
\* field in call order as key-length byte, key, type byte and value.
C31_StructuredLayoutInOrder ==
    (twPc = "write" /\ twRec.logger = "Structured") => twIn = WholeRecord(twRec)

\* What holds of C31: the layout is the stated one when the whole record
\* ends at least 64 bytes before the end of the buffer logFields formats
\* into.
StructuredLayoutWhenRoomLeft ==
    (twPc = "write" /\ twRec.logger = "Structured"
        /\ Len(WholeRecord(twRec)) <= LogFieldsBufLen(twRec.msg, twRec.fields) - 64) =>
        twIn = WholeRecord(twRec)

\* C32: the sequence numbers one StructuredLogger or UltimateLogger writes
\* into its records under concurrent callers are pairwise distinct, start at
\* 1, have no gaps, and increase in the order of each task's own calls; the
\* same holds of the records that have reached the writer, whose numbers
\* are 1 .. n once no call is in progress.
C32_SequenceNumbersDistinctGaplessOrdered ==
    /\ \A i, j \in DOMAIN slRecs : i # j => slRecs[i][3] # slRecs[j][3]
    /\ {slRecs[i][3] : i \in DOMAIN slRecs} = 1..Len(slRecs)
    /\ \A i, j \in DOMAIN slRecs :
           (slRecs[i][1] = slRecs[j][1] /\ slRecs[i][2] < slRecs[j][2]) =>
               slRecs[i][3] < slRecs[j][3]
    /\ \A i, j \in DOMAIN slOut :
           /\ i # j => slOut[i][3] # slOut[j][3]
           /\ (i < j /\ slOut[i][1] = slOut[j][1]) =>
                  (slOut[i][2] < slOut[j][2] /\ slOut[i][3] < slOut[j][3])
    /\ (\A p \in Tasks : slPc[p] = "idle") =>
           {slOut[i][3] : i \in DOMAIN slOut} = 1..Len(slOut)

\* Three tasks have records at the writer, one of them two, a call was
\* filtered by the level, and a later number reached the writer before an
\* earlier one of another task.
C32_Witness ==
    /\ \A p \in Tasks : \E i \in DOMAIN slOut : slOut[i][1] = p
    /\ \E i, j \in DOMAIN slOut : i < j /\ slOut[i][1] = slOut[j][1]
    /\ \E i, j \in DOMAIN slOut :
           i < j /\ slOut[i][1] # slOut[j][1] /\ slOut[i][3] > slOut[j][3]
    /\ \E p \in Tasks : \E i \in DOMAIN slOut : slOut[i][1] = p /\ slOut[i][2] = 2
           /\ \A j \in DOMAIN slOut : slOut[j][1] = p => j >= i

\* The tasks between Lock and Unlock.
InWrite == {p \in Tasks : cwPc[p] \in {"reset", "render", "save", "out", "unlock"}}

\* C33: under concurrent Write calls with well-formed records at most one
\* call at a time uses the scratch buffer, and the output receives for each
\* call exactly one Write holding that call's complete line, nothing mixed
\* or duplicated.
C33_ConcurrentWritesGiveWholeLines ==
    /\ Cardinality(InWrite) <= 1
    /\ \A i \in DOMAIN cwLog :
           cwLog[i].line = TwDecode(cwLog[i].in, tw.useColor).line
    /\ twOut = [i \in DOMAIN cwLog |-> cwLog[i].line]
    /\ \A p \in Tasks :
           Cardinality({i \in DOMAIN cwLog : cwLog[i].task = p})
               = cwOk[p] - (IF cwPc[p] \in {"lock", "reset", "render", "save", "out"}
                            THEN 1 ELSE 0)

\* One task's line has been written; a second task has the scratch buffer
\* two thirds rendered with another record while a third waits for the
\* mutex.
C33_Witness ==
    /\ Len(cwLog) >= 1
    /\ \E p, q \in Tasks :
           /\ cwPc[p] = "lock"
           /\ cwPc[q] = "render" /\ cwLen[q] = 2
           /\ cwLog[1].task \notin {p, q}
           /\ cwIn[q] # cwLog[1].in
           /\ JoinParts(cwArr) # cwLog[1].line
           /\ JoinParts(cwArr) # TwDecode(cwIn[q], tw.useColor).line

\* Write decoded the record of twRec in the layout its logger wrote.
DecodedInOwnLayout ==
    /\ twPc = "done"
    /\ twRec.logger # "none"
    /\ twRes.err = "none"
    /\ twRes.layout = (IF twRec.logger = "Logger" THEN "Basic" ELSE "Structured")

\* The fields the record carries: a Logger or UltimateLogger record has none.
CarriedFields ==
    IF twRec.logger \in {"Structured", "KV"} THEN Len(twRec.fields) ELSE 0

\* C34: Write pads the message with spaces up to column 40 exactly when the
\* record carries at least one field and the message is shorter than 40
\* bytes; a record with no fields, a Structured record with field count 0
\* included, gets no padding.
C34_PaddingExactlyWithFields ==
    DecodedInOwnLayout =>
        twOut[1].pad = (IF CarriedFields >= 1 /\ Len(twRec.msg) < termMsgJust
                        THEN termMsgJust - Len(twRec.msg) ELSE 0)

\* What holds of C34: the padding is added exactly when any byte follows the
\* message (the field-count byte of a Structured record is one, whatever it
\* counts) and the message has 1 .. 39 bytes.
PaddingWhenBytesFollowMessage ==
    DecodedInOwnLayout =>
        twOut[1].pad = (IF twRec.logger \in {"Structured", "KV"}
                           /\ 0 < Len(twRec.msg) /\ Len(twRec.msg) < termMsgJust
                        THEN termMsgJust - Len(twRec.msg) ELSE 0)

\* C35: with one producer calling Write sequentially and any number of
\* workers, none closed, the payloads reach the sink in the order of the
\* Write calls (payloads are numbered in call order), also when the producer
\* forwards entries itself while a worker holds an earlier one.
C35_SinkKeepsWriteOrder ==
    \A i, j \in DOMAIN sink : i < j => sink[i] < sink[j]

\* What holds of C35: with a single worker and a ring that never fills (4
\* slots for 3 Writes) the worker is the only consumer and the order is
\* kept.
SinkKeepsOrderWithOneConsumer ==
    (reqSize = 4 /\ NumWorkers = 1) => \A i, j \in DOMAIN sink : i < j => sink[i] < sink[j]

\* The record of twRec was formatted by logFields and its first field is a
\* String or Bytes field; the field begins after header, message-length
\* byte, message and field-count byte.
FirstFieldIsString ==
    /\ twPc = "write"
    /\ twRec.logger = "Structured"
    /\ twRec.fields # <<>>
    /\ twRec.fields[1].Type \in {FieldTypeString, FieldTypeBytes}
FirstFieldAt == 24 + Min(Len(twRec.msg), 255)

\* C36: for a String or Bytes field logFields writes a 2-byte length of
\* min(len(value), 65535) and that many bytes of the value, whatever the
\* lengths of the message, the keys and the other fields are.
C36_StringValueEncodedInFull ==
    FirstFieldIsString =>
        Slice(twIn, FirstFieldAt, FirstFieldAt + Len(WholeField(twRec.fields[1])))
            = WholeField(twRec.fields[1])

\* What holds of C36: the value is written in full when the field ends
\* within the buffer logFields formats into.
StringValueInFullWhenRoom ==
    (FirstFieldIsString
        /\ FirstFieldAt + Len(WholeField(twRec.fields[1]))
               <= LogFieldsBufLen(twRec.msg, twRec.fields)) =>
        Slice(twIn, FirstFieldAt, FirstFieldAt + Len(WholeField(twRec.fields[1])))
            = WholeField(twRec.fields[1])

\* C40: the slice OldRingBuffer.Get returned keeps the payload of its Put
\* under every later Put and Get: what its holder reads is what was put.
C40_ReturnedSliceKeepsPayload ==
    \A i \in DOMAIN orbGot : orbGot[i].mem = orbGot[i].put

\* What holds of C40: the slice holds the payload when Get returns it, and
\* keeps it while no later Put reuses its entry's array.
ReturnedSliceHoldsPayloadAtFirst ==
    [][\A p \in Tasks : OrbTake(p) => orbGot'[Len(orbGot')].mem = orbGot'[Len(orbGot')].put]_vars

\* C39: every LogEntry the entry pool holds has a data slice of length 0,
\* whichever path returned it: a worker, a producer that helped, or a
\* producer that found the ring full and the writer closed.
C39_PooledEntriesAreEmpty ==
    \A e \in Entries : pool[e] > 0 => dlen[e] = 0

\* What holds of C39: a consumer (worker or helping producer) returns its
\* entry with length 0.
ConsumersPoolEmptyEntries ==
    [][\A p \in Tasks : PoolPut(p) => dlen[got[p]] = 0]_vars

\* The bytes a value of the type occupies at offset pos of the record.
ValueWidth(bytes, pos, type) ==
    IF type \in {FieldTypeString, FieldTypeBytes} THEN 2 + U16BE(bytes, pos)
    ELSE IF type = FieldTypeFloat32 THEN 4
    ELSE IF type \in {FieldTypeInt, FieldTypeUint, FieldTypeBool, FieldTypeFloat64} THEN 8
    ELSE 0

\* One more field read from the record at st.pos when a complete encoding
\* (key-length byte, key, type byte, value) lies there; otherwise st.
NextWholeField(bytes, st) ==
    LET typeAt == st.pos + 1 + ByteAt(bytes, st.pos)
        lenAt == typeAt + 1
        type == ByteAt(bytes, typeAt)
    IN  IF typeAt >= Len(bytes) THEN st
        ELSE IF type \in {FieldTypeString, FieldTypeBytes} /\ lenAt + 2 > Len(bytes) THEN st
        ELSE IF lenAt + ValueWidth(bytes, lenAt, type) > Len(bytes) THEN st
        ELSE [pos |-> lenAt + ValueWidth(bytes, lenAt, type), whole |-> st.whole + 1]

\* At most tries fields read one after the other.
RECURSIVE WholeFieldsIn(_, _, _)
WholeFieldsIn(bytes, st, tries) ==
    IF tries = 0 THEN st
    ELSE IF tries = 1 THEN NextWholeField(bytes, st)
    ELSE CHOOSE all \in
             { WholeFieldsIn(bytes, firstHalf, tries - tries \div 2) :
                   firstHalf \in {WholeFieldsIn(bytes, st, tries \div 2)} } : TRUE

\* The record of twRec was formatted by logFields or logKV; its field-count
\* byte is at offset 23 + min(len(msg), 255).
HasFieldCount == twPc = "write" /\ twRec.logger \in {"Structured", "KV"}
FieldCountByte == ByteAt(twIn, FirstFieldAt - 1)

\* C37: in every record of formatStructuredMessage or logKV the field-count
\* byte is min(n, 255) and equals the number of complete field encodings
\* that follow it, for 0 .. 300 fields and any key and value lengths.
C37_FieldCountMatchesFields ==
    HasFieldCount =>
        /\ FieldCountByte = Min(Len(twRec.fields), 255)
        /\ WholeFieldsIn(twIn, [pos |-> FirstFieldAt, whole |-> 0], 255).whole
               = FieldCountByte

\* What holds of C37: the byte is min(n, 255), and the complete fields that
\* follow are never more than it says.
FieldCountIsUpperBound ==
    HasFieldCount =>
        /\ FieldCountByte = Min(Len(twRec.fields), 255)
        /\ WholeFieldsIn(twIn, [pos |-> FirstFieldAt, whole |-> 0], 255).whole
               <= FieldCountByte

\* C38: in every Basic record Logger.log produces, the 16-bit length at
\* offset 14 is the number of message bytes that follow the 16-byte header,
\* for every message length, 65536 and above included.
C38_BasicLengthMatchesMessage ==
    (twPc = "write" /\ twRec.logger = "Logger") => U16LE(twIn, 14) = Len(twIn) - 16

\* What holds of C38: the whole message follows the header, and the length
\* at offset 14 is its length modulo 2^16, which is its length up to 65535
\* bytes.
BasicLengthIsLengthMod65536 ==
    (twPc = "write" /\ twRec.logger = "Logger") =>
        /\ SubSeq(twIn, 17, Len(twIn)) = twRec.msg
        /\ U16LE(twIn, 14) = Len(twRec.msg) % 65536
        /\ Len(twRec.msg) <= 65535 => U16LE(twIn, 14) = Len(twIn) - 16

====
